---- MODULE Spec2Model ----
(***************************************************************************)
(* Model of the wiki-jam real-time synchronisation core.                   *)
(*                                                                         *)
(*  - the ShareDB channel: CollaborativeEditor.jsx clients submitting      *)
(*    full-content replace operations on a json0 document, the ShareDB     *)
(*    backend created in sharedbServer.js with its 'readSnapshots' and     *)
(*    'apply' middleware, and the page file written by wikiParser.js;      *)
(*  - the presence channel of sharedbServer.js;                            *)
(*  - the Yjs channel and the session registry of yjsServer.js, the        *)
(*    session registry of sessionManager.js and the routes of              *)
(*    routes/session.js that create, join and delete sessions.             *)
(*                                                                         *)
(* Text is a sequence of tokens: "" is << >>, and a user edit appends one  *)
(* token to the text shown in the textarea.                                *)
(***************************************************************************)
EXTENDS Integers, Sequences, FiniteSets, TLC

\* ------------------------------------------------------------------------
\* Bounds
\* ------------------------------------------------------------------------
NumClients == 2
MaxOps == 2
NumConns == 2
MaxSubmits == 3
MaxLen == 3

Clients == 1..NumClients

\* ------------------------------------------------------------------------
\* ShareDB channel: values
\* ------------------------------------------------------------------------
Fields == {"definition", "details"}

\* the field sub-document every editor of this model is mounted on
\* (WikiEditor mounts <CollaborativeEditor filename={`${page.filename}-definition`}>)
DocOf(c) == "definition"

TokTable == << <<"a1", "a2", "a3", "a4">>, <<"b1", "b2", "b3", "b4">>,
               <<"c1", "c2", "c3", "c4">>, <<"d1", "d2", "d3", "d4">> >>
\* the text typed by client c in its n-th edit
Tok(c, n) == TokTable[c][n]

InitTable == <<"ia", "ib", "ic", "id">>
\* the initialValue prop of client c: empty, or some text of its own
InitialValues(c) == { <<InitTable[c]>> }

NullVersion == -1

NoPage == [k \in {} |-> << >>]
PageKeys == {"title", "definition", "details"}

NullSnapshot == [type |-> "null", v |-> 0, data |-> << >>]

NoMsg == [t |-> "none", v |-> 0, od |-> << >>, oi |-> << >>, src |-> 0]
Msg(t, v, od, oi, src) == [t |-> t, v |-> v, od |-> od, oi |-> oi, src |-> src]

NoSubmit == [c |-> 0, f |-> "", t |-> "none", base |-> 0, opv |-> 0, served |-> 0,
             dbv |-> 0, newv |-> 0, res |-> "none", od |-> << >>, oi |-> << >>,
             prev |-> << >>, result |-> << >>, xf |-> FALSE, aoi |-> << >>, pg |-> FALSE]

VARIABLES
  dbSnap,      \* ShareDB database: committed snapshot of each field document
  opLog,       \* ShareDB database: committed operations of each field document
  page,        \* the page file of the session directory (NoPage when absent)
  subs,        \* clients whose agent is subscribed to its document
  toServer,    \* per client: messages in flight to the server (websocket, FIFO)
  toClient,    \* per client: messages in flight to the client (websocket, FIFO)
  cl,          \* per client: the ShareDB Doc held by CollaborativeEditor
  last         \* the submit the server settled last

otVars == <<dbSnap, opLog, page, subs, toServer, toClient, cl, last>>

\* the Yjs channel and the session registry
VARIABLES
  docs,          \* the docs map: document name -> Y.Doc instance (NoDoc when absent)
  docAwareness,  \* the docAwareness map: document name -> Awareness instance
  ydoc,          \* per Y.Doc instance: the updates applied to it, in order
  awStates,      \* per Awareness instance: the keys of its state map
  sessions,      \* the ids in the sessions map
  deleting,      \* sessions whose deleteSession is waiting for its file and database I/O
  yws,           \* per connection: state, docName, the doc and awareness its handlers
                 \* hold, whether its client's sync step 2 was processed (synced),
                 \* whether it found the document cached with no connection open
                 \* (resumed), the frames sent to it
  nframes,       \* frames the server has received and acted on
  lastFrame      \* the frame acted on last: its connection, its update and the case
                 \* it selected ("step2", "update" or "awareness")

yjsVars == <<docs, docAwareness, ydoc, awStates, sessions, deleting, yws, nframes, lastFrame>>

\* the presence channel
VARIABLES
  up,            \* the server process is running
  pws,           \* per connection of the websocket server: "none", "open" or "closed"
  purl,          \* per connection: the request url ("none" before the connection)
  connections,   \* the connections map: connection -> its record (NoRecord when absent)
  registered,    \* per connection: the userId of its last user-info ("none" before)
  lastPresence,  \* the 'presence' message sent last: the records it lists, each
                 \* with the connection that owns it, and the connections it went to
  lastMsg        \* the message or event handled last: its connection and its kind

presVars == <<up, pws, purl, connections, registered, lastPresence, lastMsg>>

\* the submit requests in flight in the ShareDB backend, step by step
VARIABLES
  rq,          \* per client: its submit request (SubmitRequest) and how far it is
  nsub,        \* operations submitted so far
  lastWrite,   \* per field document: the version of the content that a request
               \* on that document wrote to the page file last (0: none yet)
  lastFailed,  \* per field document: the highest version whose write failed
  done         \* the request settled last: its client, the reply, whether a
               \* file operation failed while it was processed, the versions

storeVars == <<rq, nsub, lastWrite, lastFailed, done>>

\* what a session leaves outside the memory of the server process
VARIABLES
  sessionDir,  \* the session directories on disk
  sessionRow,  \* the rows of the sessions table
  refused,     \* sessions with a row for which DELETE /delete was answered
               \* 'Failed to delete session: Session not found'
  joins,       \* the POST /join requests: where each is, the users map of
               \* the session object in the sessions map, the users added
  createFailed \* session ids for which createSession has thrown

sessVars == <<sessionDir, sessionRow, refused, joins, createFailed>>

\* the document id a middleware is called with
VARIABLES
  addr         \* the session, the filename and the kind of document the id
               \* was built from, the id, and what the middleware resolved it to

addrVars == <<addr>>

\* ------------------------------------------------------------------------
\* json0 / ShareDB operational transform
\* ------------------------------------------------------------------------

\* mutant: the 'right' side does not give way
Json0TransformNoYield(op, other, side) ==
  IF op.t = "nop" \/ other.t = "nop" THEN op
  ELSE IF side = "right" THEN op
  ELSE [op EXCEPT !.od = other.oi]

\* mutant: the winning side keeps the od it was submitted with
Json0TransformKeepOd(op, other, side) ==
  IF op.t = "nop" \/ other.t = "nop" THEN op
  ELSE IF side = "right" THEN [op EXCEPT !.t = "nop"]
  ELSE op

\* json0.transformComponent for two replace components on path ['content']:
\* type 'right' gives way (no-op), type 'left' wins and replaces what the
\* other inserted.
Json0Transform(op, other, side) ==
  IF op.t = "nop" \/ other.t = "nop" THEN op
  ELSE IF side = "right" THEN [op EXCEPT !.t = "nop"]
  ELSE [op EXCEPT !.od = other.oi]

\* json0.apply of a replace component: the key is set to oi, od is not checked
Json0Apply(data, op) == IF op.t = "nop" THEN data ELSE op.oi

\* ShareDB ot.transform(type, op, appliedOp): "err" when a create is involved
OtTransform(op, applied) ==
  IF op.t = "err" THEN op
  ELSE IF applied.t = "create" \/ op.t = "create" THEN [op EXCEPT !.t = "err"]
  ELSE [Json0Transform(op, applied, "left") EXCEPT !.v = op.v + 1]

RECURSIVE TransformOver(_, _)
\* SubmitRequest._transformOp: transform op over the committed ops it missed
TransformOver(op, ops) ==
  IF ops = << >> THEN op
  ELSE TransformOver(OtTransform(op, Head(ops)), Tail(ops))

\* ShareDB ot.apply(snapshot, op): "err" for create on an existing document
\* and for an op on a document that does not exist
OtApplicable(snap, op) ==
  IF op.t = "create" THEN snap.type = "null" ELSE snap.type = "json0"

OtApply(snap, op) ==
  IF op.t = "create"
  THEN [type |-> "json0", v |-> snap.v + 1, data |-> op.oi]
  ELSE [type |-> "json0", v |-> snap.v + 1, data |-> Json0Apply(snap.data, op)]

\* ------------------------------------------------------------------------
\* Page store (wikiParser.js)
\* ------------------------------------------------------------------------
PageExists(pg) == DOMAIN pg # {}

\* what the file system does in one call: it works, fs.readFile rejects,
\* or fs.writeFile rejects
IOs == {"ok", "readFails", "saveFails"}

\* getWikiPage: the parsed page, or null (here NoPage) when the file is
\* absent or cannot be read
GetWikiPage(pg, io) == IF io = "readFails" THEN NoPage ELSE pg

\* saveWikiPage: yaml.dump throws on an undefined title/definition/details
\* and fs.writeFile can reject; the exception is caught and the file is
\* left as it was
SaveWikiPage(pg, pageData, io) ==
  IF PageKeys \subseteq DOMAIN pageData /\ io # "saveFails"
  THEN [k \in PageKeys |-> pageData[k]]
  ELSE pg

\* pageData[fieldName] = content
SetField(pageData, f, content) ==
  [k \in (DOMAIN pageData) \cup {f} |-> IF k = f THEN content ELSE pageData[k]]

\* mutant: the details are loaded whatever field the document addresses
ReadSnapshotsDetails(snap, pg, f, io) ==
  IF snap.type = "null" /\ PageExists(GetWikiPage(pg, io))
  THEN [type |-> "json0", v |-> 1, data |-> GetWikiPage(pg, io)["details"]]
  ELSE snap

\* 'readSnapshots' middleware: a snapshot that does not exist in ShareDB is
\* replaced by the page's field, as type json0 at version 1
ReadSnapshots(snap, pg, f, io) ==
  IF snap.type = "null" /\ PageExists(GetWikiPage(pg, io))
  THEN [type |-> "json0", v |-> 1, data |-> GetWikiPage(pg, io)[f]]
  ELSE snap

\* 'apply' middleware: fetch the document through a server-side connection
\* and write its content into the page file
ApplyMiddleware(snap, pg, f, io) ==
  LET doc == ReadSnapshots(snap, pg, f, io) IN
  IF doc.type = "json0"
  THEN SaveWikiPage(pg, SetField(GetWikiPage(pg, io), f, doc.data), io)
  ELSE pg

\* ------------------------------------------------------------------------
\* ShareDB channel: initial state
\* ------------------------------------------------------------------------
NewDoc == [st |-> "init", type |-> "null", v |-> NullVersion, data |-> << >>,
           inflight |-> NoMsg, nops |-> 0, created |-> FALSE, base |-> NullVersion]

PagePresent(def) == [k \in PageKeys |->
                       IF k = "title" THEN <<"t">>
                       ELSE IF k = "definition" THEN def ELSE << >>]

InitOT ==
  /\ dbSnap = [f \in Fields |-> NullSnapshot]
  /\ opLog = [f \in Fields |-> << >>]
  /\ page \in {NoPage, PagePresent(<<"p">>)}
  /\ subs = {}
  /\ toServer = [c \in Clients |-> << >>]
  /\ toClient = [c \in Clients |-> << >>]
  /\ cl = [c \in Clients |-> NewDoc]
  /\ last = NoSubmit

\* ------------------------------------------------------------------------
\* ShareDB channel: the client (CollaborativeEditor.jsx over sharedb/lib/client)
\* ------------------------------------------------------------------------

\* shareDoc.subscribe(...) is sent when the effect mounts
Subscribe(c) ==
  /\ cl[c].st = "init"
  /\ cl' = [cl EXCEPT ![c].st = "subscribing"]
  /\ toServer' = [toServer EXCEPT ![c] = Append(@, Msg("sub", 0, << >>, << >>, c))]
  /\ UNCHANGED <<dbSnap, opLog, page, subs, toClient, last>>
  /\ UNCHANGED <<yjsVars, presVars, storeVars, sessVars, addrVars>>

\* Doc._hardRollback: forget the local state and fetch the snapshot again
HardRollback(c) ==
  /\ cl' = [cl EXCEPT ![c] = [@ EXCEPT !.st = "fetching", !.type = "null",
                                       !.v = NullVersion, !.data = << >>,
                                       !.inflight = NoMsg]]
  /\ toServer' = [toServer EXCEPT ![c] = Append(@, Msg("fetch", 0, << >>, << >>, c))]

\* the snapshot reply: Doc.ingestSnapshot, then the subscribe callback of
\* the editor, which creates the document when it does not exist
RecvSnapshot(c) ==
  /\ toClient[c] # << >>
  /\ Head(toClient[c]).t \in {"snap", "snapnull"}
  /\ LET m == Head(toClient[c]) IN
     /\ toClient' = [toClient EXCEPT ![c] = Tail(@)]
     /\ IF cl[c].st = "subscribing" /\ m.t = "snapnull"
        THEN \E init \in InitialValues(c) :
               /\ cl' = [cl EXCEPT ![c] = [@ EXCEPT !.st = "ready", !.type = "json0",
                                                    !.v = m.v, !.data = init, !.created = TRUE,
                                                    !.inflight = Msg("create", m.v, << >>, init, c)]]
               /\ toServer' = [toServer EXCEPT ![c] = Append(@, Msg("create", m.v, << >>, init, c))]
        ELSE /\ cl' = [cl EXCEPT ![c] = [@ EXCEPT !.st = "ready",
                                                  !.type = IF m.t = "snap" THEN "json0" ELSE "null",
                                                  !.v = m.v, !.data = m.oi]]
             /\ UNCHANGED toServer
  /\ UNCHANGED <<dbSnap, opLog, page, subs, last>>
  /\ UNCHANGED <<yjsVars, presVars, storeVars, sessVars, addrVars>>

OpsTyped == Cardinality({x \in Clients \X (1..MaxOps) : x[2] <= cl[x[1]].nops})

\* mutant: the deleted value is the content the editor was mounted with
HandleChangeStaleOd(c) ==
  /\ cl[c].st = "ready"
  /\ cl[c].type = "json0"
  /\ cl[c].inflight.t = "none"
  /\ OpsTyped < MaxOps
  /\ LET newValue == Append(cl[c].data, Tok(c, cl[c].nops + 1))
         op == Msg("op", cl[c].v, <<InitTable[c]>>, newValue, c) IN
     /\ cl' = [cl EXCEPT ![c] = [@ EXCEPT !.data = newValue, !.inflight = op,
                                          !.nops = @ + 1, !.base = cl[c].v]]
     /\ toServer' = [toServer EXCEPT ![c] = Append(@, op)]
  /\ UNCHANGED <<dbSnap, opLog, page, subs, toClient, last>>
  /\ UNCHANGED <<yjsVars, presVars, storeVars, sessVars, addrVars>>

\* handleChange: the textarea value replaces the whole content
HandleChange(c) ==
  /\ cl[c].st = "ready"
  /\ cl[c].type = "json0"
  /\ cl[c].inflight.t = "none"
  /\ OpsTyped < MaxOps
  /\ LET newValue == Append(cl[c].data, Tok(c, cl[c].nops + 1))
         op == Msg("op", cl[c].v, cl[c].data, newValue, c) IN
     /\ cl' = [cl EXCEPT ![c] = [@ EXCEPT !.data = newValue, !.inflight = op,
                                          !.nops = @ + 1, !.base = cl[c].v]]
     /\ toServer' = [toServer EXCEPT ![c] = Append(@, op)]
  /\ UNCHANGED <<dbSnap, opLog, page, subs, toClient, last>>
  /\ UNCHANGED <<yjsVars, presVars, storeVars, sessVars, addrVars>>

\* doc.data?.content || ''
ContentOrEmpty(data) == IF data = << >> THEN << >> ELSE data

\* the initialValue effect: the parent component has given the editor a
\* value that differs from the document (text added to the field by the
\* link dialog); once the document is ready the effect replaces the whole
\* content by it
InitialValueEffect(c) ==
  /\ cl[c].st = "ready"
  /\ cl[c].type = "json0"
  /\ cl[c].inflight.t = "none"
  /\ OpsTyped < MaxOps
  /\ LET currentContent == ContentOrEmpty(cl[c].data)
         newContent == Append(cl[c].data, Tok(c, cl[c].nops + 1))
         op == Msg("op", cl[c].v, currentContent, newContent, c) IN
     /\ currentContent # newContent
     /\ cl' = [cl EXCEPT ![c] = [@ EXCEPT !.data = newContent, !.inflight = op,
                                          !.nops = @ + 1, !.base = cl[c].v]]
     /\ toServer' = [toServer EXCEPT ![c] = Append(@, op)]
  /\ UNCHANGED <<dbSnap, opLog, page, subs, toClient, last>>
  /\ UNCHANGED <<yjsVars, presVars, storeVars, sessVars, addrVars>>

\* Doc._handleOp for an operation of another client: transformX against the
\* inflight operation (client 'left', server 'right'), then apply
RecvOp(c) ==
  /\ toClient[c] # << >>
  /\ Head(toClient[c]).t \in {"op", "create", "nop"}
  /\ LET m == Head(toClient[c])
         d == cl[c] IN
     /\ toClient' = [toClient EXCEPT ![c] = Tail(@)]
     /\ IF d.v = NullVersion \/ m.v # d.v
        THEN UNCHANGED <<cl, toServer>>
        ELSE IF d.inflight.t = "create" \/ (m.t = "create" /\ d.inflight.t # "none")
        THEN HardRollback(c)
        ELSE IF m.t = "create"
        THEN /\ cl' = [cl EXCEPT ![c] = [@ EXCEPT !.type = "json0", !.data = m.oi,
                                                  !.v = @ + 1]]
             /\ UNCHANGED toServer
        ELSE IF d.inflight.t = "none"
        THEN /\ cl' = [cl EXCEPT ![c] = [@ EXCEPT !.data = Json0Apply(d.data, m),
                                                  !.v = @ + 1]]
             /\ UNCHANGED toServer
        ELSE LET clientOp == Json0Transform(d.inflight, m, "left")
                 serverOp == Json0Transform(m, d.inflight, "right") IN
             /\ cl' = [cl EXCEPT ![c] = [@ EXCEPT !.inflight = clientOp,
                                                  !.data = Json0Apply(d.data, serverOp),
                                                  !.v = @ + 1]]
             /\ UNCHANGED toServer
  /\ UNCHANGED <<dbSnap, opLog, page, subs, last>>
  /\ UNCHANGED <<yjsVars, presVars, storeVars, sessVars, addrVars>>

\* Doc._opAcknowledged
RecvAck(c) ==
  /\ toClient[c] # << >>
  /\ Head(toClient[c]).t = "ack"
  /\ LET m == Head(toClient[c])
         d == cl[c] IN
     /\ toClient' = [toClient EXCEPT ![c] = Tail(@)]
     /\ IF d.inflight.t = "none"
        THEN UNCHANGED <<cl, toServer>>
        ELSE IF d.inflight.t = "create"
        THEN /\ cl' = [cl EXCEPT ![c] = [@ EXCEPT !.v = m.v + 1, !.inflight = NoMsg]]
             /\ UNCHANGED toServer
        ELSE IF m.v # d.v
        THEN HardRollback(c)
        ELSE /\ cl' = [cl EXCEPT ![c] = [@ EXCEPT !.v = @ + 1, !.inflight = NoMsg]]
             /\ UNCHANGED toServer
  /\ UNCHANGED <<dbSnap, opLog, page, subs, last>>
  /\ UNCHANGED <<yjsVars, presVars, storeVars, sessVars, addrVars>>

\* the server rejected the inflight operation: Doc._rollback inverts a json0
\* operation locally, a rejected create is rolled back hard
RecvError(c) ==
  /\ toClient[c] # << >>
  /\ Head(toClient[c]).t = "err"
  /\ LET d == cl[c] IN
     /\ toClient' = [toClient EXCEPT ![c] = Tail(@)]
     /\ IF d.inflight.t = "none"
        THEN UNCHANGED <<cl, toServer>>
        ELSE IF d.inflight.t = "create"
        THEN HardRollback(c)
        ELSE /\ cl' = [cl EXCEPT ![c] = [@ EXCEPT !.data = IF d.inflight.t = "nop" THEN @
                                                           ELSE d.inflight.od,
                                                  !.inflight = NoMsg]]
             /\ UNCHANGED toServer
  /\ UNCHANGED <<dbSnap, opLog, page, subs, last>>
  /\ UNCHANGED <<yjsVars, presVars, storeVars, sessVars, addrVars>>

\* ------------------------------------------------------------------------
\* ShareDB channel: the server (backend.listen(stream) in sharedbServer.js)
\* ------------------------------------------------------------------------

\* the snapshot the server hands to subscribers and fetchers
Served(f) == ReadSnapshots(dbSnap[f], page, f, "ok")

SnapMsg(snap) ==
  Msg(IF snap.type = "json0" THEN "snap" ELSE "snapnull", snap.v, << >>, snap.data, 0)

\* a subscribe or fetch request: the snapshot passes through 'readSnapshots'
ServeSnapshot(c) ==
  /\ toServer[c] # << >>
  /\ Head(toServer[c]).t \in {"sub", "fetch"}
  /\ toServer' = [toServer EXCEPT ![c] = Tail(@)]
  /\ toClient' = [toClient EXCEPT ![c] = Append(@, SnapMsg(Served(DocOf(c))))]
  /\ subs' = IF Head(toServer[c]).t = "sub" THEN subs \cup {c} ELSE subs
  /\ UNCHANGED <<dbSnap, opLog, page, cl, last>>
  /\ UNCHANGED <<yjsVars, presVars, storeVars, sessVars, addrVars>>

\* what is remembered of the submit settled last: the operation as
\* submitted (base) and as transformed (op), the version handed to
\* subscribers and the database snapshot it met, whether the page file
\* existed, the outcome
Settled(c, m, op, res, new, missed) ==
  [c |-> c, f |-> DocOf(c), t |-> m.t, base |-> m.v, opv |-> op.v,
   served |-> Served(DocOf(c)).v, dbv |-> dbSnap[DocOf(c)].v, newv |-> new.v,
   res |-> res, od |-> op.od, oi |-> op.oi, prev |-> dbSnap[DocOf(c)].data,
   result |-> new.data, xf |-> missed # << >>,
   aoi |-> IF missed # << >> THEN missed[Len(missed)].oi ELSE << >>,
   pg |-> PageExists(page)]

\* the submit is refused: the error goes back to the submitting client only
Reject(c, m, op, missed) ==
  /\ toClient' = [toClient EXCEPT ![c] = Append(@, Msg("err", m.v, << >>, << >>, c))]
  /\ last' = Settled(c, m, op, "err", dbSnap[DocOf(c)], missed)
  /\ UNCHANGED <<dbSnap, opLog>>

OpMsgs(ops, from) == [i \in 1..Len(ops) |-> [ops[i] EXCEPT !.v = from + i - 1]]

\* db.commit, then publish to the other subscribers and acknowledge (after
\* the operations the submitter missed)
Commit(c, m, op, missed) ==
  LET f == DocOf(c)
      new == OtApply(dbSnap[f], op) IN
  /\ dbSnap' = [dbSnap EXCEPT ![f] = new]
  /\ opLog' = [opLog EXCEPT ![f] = Append(@, op)]
  /\ toClient' = [k \in Clients |->
                    IF k = c
                    THEN toClient[k] \o OpMsgs(missed, m.v)
                                     \o <<Msg("ack", op.v, << >>, << >>, c)>>
                    ELSE IF k \in subs /\ DocOf(k) = f
                    THEN Append(toClient[k], op)
                    ELSE toClient[k]]
  /\ last' = Settled(c, m, op, "ok", new, missed)

\* SubmitRequest.submit: read the committed snapshot straight from the
\* database (no middleware), refuse a version ahead of it, transform the
\* operation over the operations committed since its version, trigger the
\* 'apply' middleware, apply the operation and commit; one submit runs
\* from start to end and the file system works
Submit(c) ==
  /\ toServer[c] # << >>
  /\ Head(toServer[c]).t \in {"op", "create"}
  /\ toServer' = [toServer EXCEPT ![c] = Tail(@)]
  /\ LET f == DocOf(c)
         m == Head(toServer[c])
         snap == dbSnap[f] IN
     IF m.v > snap.v
     THEN Reject(c, m, m, << >>) /\ UNCHANGED page
     ELSE LET missed == SubSeq(opLog[f], m.v + 1, snap.v)
              op == TransformOver(m, missed) IN
          IF op.t = "err"
          THEN Reject(c, m, m, missed) /\ UNCHANGED page
          ELSE /\ page' = ApplyMiddleware(snap, page, f, "ok")
               /\ IF OtApplicable(snap, op)
                  THEN Commit(c, m, op, missed)
                  ELSE Reject(c, m, op, missed)
  /\ UNCHANGED <<subs, cl>>
  /\ UNCHANGED <<yjsVars, presVars, storeVars, sessVars, addrVars>>

\* POST /api/wiki/create: an empty page file is written
RestCreatePage ==
  /\ ~ PageExists(page)
  /\ page' = SaveWikiPage(page, PagePresent(<< >>), "ok")
  /\ UNCHANGED <<dbSnap, opLog, subs, toServer, toClient, cl, last>>
  /\ UNCHANGED <<yjsVars, presVars, storeVars, sessVars, addrVars>>

NextOT ==
  \/ \E c \in Clients : Subscribe(c)
  \/ \E c \in Clients : RecvSnapshot(c)
  \/ \E c \in Clients : HandleChange(c)
  \/ \E c \in Clients : RecvOp(c)
  \/ \E c \in Clients : RecvAck(c)
  \/ \E c \in Clients : RecvError(c)
  \/ \E c \in Clients : ServeSnapshot(c)
  \/ \E c \in Clients : Submit(c)
  \/ RestCreatePage

\* ------------------------------------------------------------------------
\* Yjs channel and session registry (yjsServer.js)
\* ------------------------------------------------------------------------

Conns == 1..NumConns

\* the session that is registered and deleted; the documents of "s2" belong
\* to a session that is not in the sessions map
SessionIds == {"s1"}

\* a document name '<sessionId>/<page>' as the sequence of its parts
DocName(s, p) == <<s, "/", p>>
DocNames == {DocName("s1", "p"), DocName("s2", "p")}
NoName == << >>

\* docName.startsWith(`${sessionId}/`)
StartsWith(name, prefix) ==
  Len(prefix) <= Len(name) /\ SubSeq(name, 1, Len(prefix)) = prefix
SessionPrefix(s) == <<s, "/">>

\* no entry in the docs / docAwareness map
NoDoc == 0

\* the message types the handler switches on (y-protocols/sync); the
\* awareness module exports no messageAwareness, so that case label is
\* undefined and matches no decoded type
MessageYjsSyncStep1 == "0"
MessageYjsSyncStep2 == "1"
MessageYjsUpdate == "2"
MessageAwareness == "undefined"
FrameTypes == {"0", "1", "2", "3"}

\* keys of an awareness state map are client ids; the close handler passes
\* the socket object where a client id is expected
ClientId(c) == <<"id", c>>
WsKey(c) == <<"ws", c>>

Frame(t, u, from) == [t |-> t, u |-> u, from |-> from]
NoFrame == [c |-> 0, sel |-> "none", u |-> << >>]

NewWs == [state |-> "none", docName |-> NoName, doc |-> NoDoc, awareness |-> NoDoc,
          synced |-> FALSE, resumed |-> FALSE, out |-> << >>]

InitYjs ==
  /\ docs = [n \in DocNames |-> NoDoc]
  /\ docAwareness = [n \in DocNames |-> NoDoc]
  /\ ydoc = [d \in Conns |-> << >>]
  /\ awStates = [d \in Conns |-> {}]
  /\ sessions = {}
  /\ deleting = {}
  /\ yws = [c \in Conns |-> NewWs]
  /\ nframes = 0
  /\ lastFrame = NoFrame

\* mutant: a new Y.Doc on every call
GetOrCreateDocAlwaysNew(map, docName, fresh) == [map EXCEPT ![docName] = fresh]

\* getOrCreateDoc: the instance created by connection c is named c
GetOrCreateDoc(map, docName, fresh) ==
  IF map[docName] = NoDoc THEN [map EXCEPT ![docName] = fresh] ELSE map

\* map.setIfUndefined(docAwareness, docName, () => new Awareness(doc))
SetIfUndefined(map, docName, fresh) ==
  IF map[docName] = NoDoc THEN [map EXCEPT ![docName] = fresh] ELSE map

\* awarenessProtocol.removeAwarenessStates(awareness, keys, null)
RemoveAwarenessStates(states, keys) == states \ keys

\* mutant: the frame is put in front of what was sent before
BroadcastMessageFirst(ws, sender, docName, message) ==
  [k \in Conns |->
     IF k # sender /\ ws[k].docName = docName /\ ws[k].state = "open"
     THEN [ws[k] EXCEPT !.out = <<message>> \o @]
     ELSE ws[k]]

\* mutant: the sender is not left out
BroadcastMessageAll(ws, sender, docName, message) ==
  [k \in Conns |->
     IF ws[k].docName = docName /\ ws[k].state = "open"
     THEN [ws[k] EXCEPT !.out = Append(@, message)]
     ELSE ws[k]]

\* broadcastMessage: every other open client of the same document name
BroadcastMessage(ws, sender, docName, message) ==
  [k \in Conns |->
     IF k # sender /\ ws[k].docName = docName /\ ws[k].state = "open"
     THEN [ws[k] EXCEPT !.out = Append(@, message)]
     ELSE ws[k]]

\* wss.on('connection'): the document name comes from the request path;
\* connections are numbered in the order in which they are accepted
YConnect(c) ==
  /\ yws[c].state = "none"
  /\ \A k \in Conns : k < c => yws[k].state # "none"
  /\ \E name \in DocNames \cup {NoName} :
       IF name = NoName
       THEN /\ yws' = [yws EXCEPT ![c].state = "closed"]
            /\ UNCHANGED <<docs, docAwareness, ydoc, awStates>>
       ELSE LET created == docAwareness[name] = NoDoc
                newDocs == GetOrCreateDoc(docs, name, c)
                newAw == SetIfUndefined(docAwareness, name, c)
                d == newDocs[name]
                a == newAw[name]
                \* new Awareness(doc) holds the local state of the server's doc
                states == IF created THEN {ClientId(0)} ELSE awStates[a]
            IN
            /\ docs' = newDocs
            /\ docAwareness' = newAw
            /\ awStates' = [awStates EXCEPT ![a] = states]
            /\ yws' = [yws EXCEPT ![c] =
                 [state |-> "open", docName |-> name, doc |-> d, awareness |-> a,
                  synced |-> FALSE,
                  resumed |-> /\ docs[name] # NoDoc
                              /\ \A k \in Conns : ~ (yws[k].state = "open"
                                                      /\ yws[k].docName = name),
                  out |-> <<Frame("step1", ydoc[d], 0)>>
                          \o (IF states # {} THEN <<Frame("awareness", << >>, 0)>>
                              ELSE << >>)]]
            /\ UNCHANGED ydoc
  /\ UNCHANGED <<sessions, deleting, nframes, lastFrame>>
  /\ UNCHANGED <<otVars, presVars, storeVars, sessVars, addrVars>>

\* the case of the switch that runs to its end for a frame of this type
Selected(type) ==
  CASE type = MessageYjsSyncStep2 -> "step2"
    [] type = MessageYjsUpdate -> "update"
    [] type = MessageAwareness -> "awareness"
    [] OTHER -> "nothing"

\* mutant: updates are accepted only after the handshake
OnMessageSynced(c) ==
  /\ yws[c].state = "open"
  /\ nframes < MaxOps
  /\ \E type \in FrameTypes :
       LET u == <<<<c, nframes + 1>>>>
           d == yws[c].doc
       IN
       IF Selected(type) = "nothing"
       THEN UNCHANGED <<ydoc, awStates, yws, nframes, lastFrame>>
       ELSE
       /\ nframes' = nframes + 1
       /\ lastFrame' = [c |-> c, sel |-> Selected(type), u |-> u]
       /\ CASE type = MessageYjsSyncStep2 ->
                 /\ ydoc' = [ydoc EXCEPT ![d] = @ \o u]
                 /\ yws' = [yws EXCEPT ![c].synced = TRUE]
                 /\ UNCHANGED awStates
            [] type = MessageYjsUpdate /\ yws[c].synced ->
                 /\ ydoc' = [ydoc EXCEPT ![d] = @ \o u]
                 /\ yws' = BroadcastMessage(yws, c, yws[c].docName, Frame("update", u, c))
                 /\ UNCHANGED awStates
            [] OTHER -> UNCHANGED <<ydoc, awStates, yws>>
  /\ UNCHANGED <<docs, docAwareness, sessions, deleting>>
  /\ UNCHANGED <<otVars, presVars, storeVars, sessVars, addrVars>>

\* ws.on('message'): the first varuint of the frame selects the case; the
\* frame carries one update (u). In the SyncStep1 case writeSyncStep1 is
\* handed the decoder where it expects an encoder: the call raises inside
\* the try block and nothing is sent. A frame that changes nothing is not
\* counted.
OnMessage(c) ==
  /\ yws[c].state = "open"
  /\ nframes < MaxOps
  /\ \E type \in FrameTypes :
       LET u == <<<<c, nframes + 1>>>>
           d == yws[c].doc
       IN
       IF Selected(type) = "nothing"
       THEN UNCHANGED <<ydoc, awStates, yws, nframes, lastFrame>>
       ELSE
       /\ nframes' = nframes + 1
       /\ lastFrame' = [c |-> c, sel |-> Selected(type), u |-> u]
       /\ CASE type = MessageYjsSyncStep1 -> UNCHANGED <<ydoc, awStates, yws>>
            [] type = MessageYjsSyncStep2 ->
                 /\ ydoc' = [ydoc EXCEPT ![d] = @ \o u]
                 /\ yws' = [yws EXCEPT ![c].synced = TRUE]
                 /\ UNCHANGED awStates
            [] type = MessageYjsUpdate ->
                 /\ ydoc' = [ydoc EXCEPT ![d] = @ \o u]
                 /\ yws' = BroadcastMessage(yws, c, yws[c].docName, Frame("update", u, c))
                 /\ UNCHANGED awStates
            [] type = MessageAwareness ->
                 /\ awStates' = [awStates EXCEPT ![yws[c].awareness] = @ \cup {ClientId(c)}]
                 /\ yws' = BroadcastMessage(yws, c, yws[c].docName, Frame("awareness", u, c))
                 /\ UNCHANGED ydoc
            [] OTHER -> UNCHANGED <<ydoc, awStates, yws>>
  /\ UNCHANGED <<docs, docAwareness, sessions, deleting>>
  /\ UNCHANGED <<otVars, presVars, storeVars, sessVars, addrVars>>

\* ws.on('message') for a frame that cannot be decoded (readVarUint raises
\* on an empty frame): the catch logs the error
YBadFrame(c) ==
  /\ yws[c].state = "open"
  /\ lastFrame' = [c |-> c, sel |-> "undecodable", u |-> << >>]
  /\ UNCHANGED <<docs, docAwareness, ydoc, awStates, sessions, deleting, yws, nframes>>
  /\ UNCHANGED <<otVars, presVars, storeVars, sessVars, addrVars>>

\* ws.on('error'): the listener logs the error
YError(c) ==
  /\ yws[c].state = "open"
  /\ lastFrame' = [c |-> c, sel |-> "error", u |-> << >>]
  /\ UNCHANGED <<docs, docAwareness, ydoc, awStates, sessions, deleting, yws, nframes>>
  /\ UNCHANGED <<otVars, presVars, storeVars, sessVars, addrVars>>

\* ws.on('message') for a SyncStep1 frame: the type of the reply is written
\* to the encoder, then writeSyncStep1(decoder, encoder, doc) writes to the
\* decoder as if it were an encoder and raises; the catch logs the error
\* and the reply is never sent
YSyncStep1(c) ==
  /\ yws[c].state = "open"
  /\ lastFrame' = [c |-> c, sel |-> "step1", u |-> << >>]
  /\ UNCHANGED <<docs, docAwareness, ydoc, awStates, sessions, deleting, yws, nframes>>
  /\ UNCHANGED <<otVars, presVars, storeVars, sessVars, addrVars>>

\* mutant: the document is evicted when its last connection closes
YCloseEvict(c) ==
  /\ yws[c].state = "open"
  /\ yws' = [yws EXCEPT ![c].state = "closed"]
  /\ awStates' = [awStates EXCEPT ![yws[c].awareness] = RemoveAwarenessStates(@, {WsKey(c)})]
  /\ IF \A k \in Conns \ {c} : ~ (yws[k].state = "open" /\ yws[k].docName = yws[c].docName)
     THEN /\ docs' = [docs EXCEPT ![yws[c].docName] = NoDoc]
          /\ docAwareness' = [docAwareness EXCEPT ![yws[c].docName] = NoDoc]
     ELSE UNCHANGED <<docs, docAwareness>>
  /\ UNCHANGED <<ydoc, sessions, deleting, nframes, lastFrame>>
  /\ UNCHANGED <<otVars, presVars, storeVars, sessVars, addrVars>>

\* ws.on('close')
YClose(c) ==
  /\ yws[c].state = "open"
  /\ yws' = [yws EXCEPT ![c].state = "closed"]
  /\ awStates' = [awStates EXCEPT ![yws[c].awareness] = RemoveAwarenessStates(@, {WsKey(c)})]
  /\ UNCHANGED <<docs, docAwareness, ydoc, sessions, deleting, nframes, lastFrame>>
  /\ UNCHANGED <<otVars, presVars, storeVars, sessVars, addrVars>>

\* the requests that call getSession while the server processes them
Callers == 1..MaxSubmits

\* no join request is being processed; the session object in the map has
\* no users
NoJoins == [calls |-> [r \in Callers |-> "idle"], n |-> 0,
            users |-> [s \in SessionIds |-> {}], added |-> {}]

\* no session was ever created
InitSessions ==
  /\ sessionDir = {}
  /\ sessionRow = {}
  /\ refused = {}
  /\ joins = NoJoins
  /\ createFailed = {}

\* createSession under a new id: the directory and the database row are
\* written, then the session is put into the sessions map
CreateSession(s) ==
  /\ s \notin sessions
  /\ s \notin sessionRow
  /\ sessions' = sessions \cup {s}
  /\ sessionDir' = sessionDir \cup {s}
  /\ sessionRow' = sessionRow \cup {s}
  /\ UNCHANGED <<docs, docAwareness, ydoc, awStates, deleting, yws, nframes, lastFrame>>
  /\ UNCHANGED <<refused, joins, createFailed>>
  /\ UNCHANGED <<otVars, presVars, storeVars, addrVars>>

\* createSession where fs.mkdir or saveSession rejects: the catch rethrows
\* before the session is put into the sessions map; when saveSession
\* rejects the directory has been made
CreateSessionFail(s) ==
  /\ s \notin sessions
  /\ s \notin sessionRow
  /\ \E at \in {"mkdir", "saveSession"} :
       sessionDir' = IF at = "saveSession" THEN sessionDir \cup {s} ELSE sessionDir
  /\ createFailed' = createFailed \cup {s}
  /\ UNCHANGED yjsVars
  /\ UNCHANGED <<sessionRow, refused, joins>>
  /\ UNCHANGED <<otVars, presVars, storeVars, addrVars>>

\* getSession: a session that is not in memory is registered from its
\* database row, or from its directory
GetSession(s) ==
  /\ s \notin sessions
  /\ s \in sessionRow \cup sessionDir
  /\ sessions' = sessions \cup {s}
  /\ UNCHANGED <<docs, docAwareness, ydoc, awStates, deleting, yws, nframes, lastFrame>>
  /\ UNCHANGED sessVars
  /\ UNCHANGED <<otVars, presVars, storeVars, addrVars>>

\* DELETE /delete with the secret key of a session that has a database
\* row, and deleteSession up to its first await
DeleteSessionBegin(s) ==
  /\ s \in sessions
  /\ s \in sessionRow
  /\ s \notin deleting
  /\ deleting' = deleting \cup {s}
  /\ UNCHANGED <<docs, docAwareness, ydoc, awStates, sessions, yws, nframes, lastFrame>>
  /\ UNCHANGED sessVars
  /\ UNCHANGED <<otVars, presVars, storeVars, addrVars>>

\* DELETE /delete with the secret key of a session that is not in memory:
\* the route finds the row by getSessionBySecretKey, deleteSession throws
\* 'Session not found' and the route answers 500
DeleteSessionNotLoaded(s) ==
  /\ s \notin sessions
  /\ s \in sessionRow
  /\ refused' = refused \cup {s}
  /\ UNCHANGED <<sessionDir, sessionRow, joins, createFailed>>
  /\ UNCHANGED yjsVars
  /\ UNCHANGED <<otVars, presVars, storeVars, addrVars>>

\* deleteSession after fs.rm and deleteSessionFromDB have succeeded
DeleteSessionFinish(s) ==
  /\ s \in deleting
  /\ deleting' = deleting \ {s}
  /\ sessions' = sessions \ {s}
  /\ sessionDir' = sessionDir \ {s}
  /\ sessionRow' = sessionRow \ {s}
  /\ docs' = [n \in DocNames |-> IF StartsWith(n, SessionPrefix(s)) THEN NoDoc ELSE docs[n]]
  /\ docAwareness' = [n \in DocNames |->
                        IF docs[n] # NoDoc /\ StartsWith(n, SessionPrefix(s))
                        THEN NoDoc ELSE docAwareness[n]]
  /\ UNCHANGED <<ydoc, awStates, yws, nframes, lastFrame>>
  /\ UNCHANGED <<refused, joins, createFailed>>
  /\ UNCHANGED <<otVars, presVars, storeVars, addrVars>>

\* fs.rm rejects: the error is rethrown
DeleteSessionFail(s) ==
  /\ s \in deleting
  /\ deleting' = deleting \ {s}
  /\ UNCHANGED <<docs, docAwareness, ydoc, awStates, sessions, yws, nframes, lastFrame>>
  /\ UNCHANGED sessVars
  /\ UNCHANGED <<otVars, presVars, storeVars, addrVars>>

\* fs.rm has removed the directory and deleteSessionFromDB rejects: the
\* error is rethrown
DeleteSessionFailDB(s) ==
  /\ s \in deleting
  /\ deleting' = deleting \ {s}
  /\ sessionDir' = sessionDir \ {s}
  /\ UNCHANGED <<docs, docAwareness, ydoc, awStates, sessions, yws, nframes, lastFrame>>
  /\ UNCHANGED <<sessionRow, refused, joins, createFailed>>
  /\ UNCHANGED <<otVars, presVars, storeVars, addrVars>>

NextYjs ==
  \/ \E c \in Conns : YConnect(c)
  \/ \E c \in Conns : OnMessage(c)
  \/ \E c \in Conns : YClose(c)
  \/ \E s \in SessionIds : CreateSession(s)
  \/ \E s \in SessionIds : DeleteSessionBegin(s)
  \/ \E s \in SessionIds : DeleteSessionFinish(s)
  \/ \E s \in SessionIds : DeleteSessionFail(s)

\* ------------------------------------------------------------------------
\* ShareDB backend: one submit request, step by step (sharedb
\* lib/submit-request.js, the 'apply' middleware of sharedbServer.js)
\* ------------------------------------------------------------------------

\* the session of the documents that the requests address
StoreSession == "s1"

NoRequest == [st |-> "idle", f |-> "none", m |-> NoMsg, snapv |-> 0,
              doc |-> NullSnapshot, pd |-> NoPage, io |-> "ok"]

NoneDone == [res |-> "none", io |-> "ok", applied |-> FALSE, published |-> FALSE]

\* no request is in flight
InitRequests ==
  /\ rq = [c \in Clients |-> NoRequest]
  /\ nsub = 0
  /\ lastWrite = [f \in Fields |-> 0]
  /\ lastFailed = [f \in Fields |-> 0]
  /\ done = NoneDone

TextTable == <<"e1", "e2", "e3", "e4", "e5", "e6">>
\* the text of the n-th edit of the run
Text(n) == <<TextTable[n]>>

\* Agent._handleMessage 'op', SubmitRequest.submit up to the 'apply'
\* middleware and the middleware's doc.fetch: a client in step with the
\* server replaces the text of one field document; db.getSnapshot and the
\* fetch on the middleware's own connection read the committed snapshot.
\* The clients are numbered in the order in which they take up a request.
StSubmit(c) ==
  /\ rq[c].st = "idle"
  /\ \A k \in Clients : k < c => rq[k].st # "idle"
  /\ nsub < MaxSubmits
  /\ nsub' = nsub + 1
  /\ \E f \in Fields :
       rq' = [rq EXCEPT ![c] =
                [NoRequest EXCEPT !.st = "fetched", !.f = f, !.snapv = dbSnap[f].v,
                                  !.doc = ReadSnapshots(dbSnap[f], page, f, "ok"),
                                  !.m = Msg("op", dbSnap[f].v, dbSnap[f].data, Text(nsub + 1), c)]]
  /\ UNCHANGED <<lastWrite, lastFailed, done>>
  /\ UNCHANGED <<otVars, yjsVars, presVars, sessVars, addrVars>>

\* SubmitRequest.retry: submit again; db.getSnapshot and the middleware's
\* doc.fetch read the committed snapshot, db.getOps the operations
\* committed since the operation's version
StRetry(c) ==
  /\ rq[c].st = "retry"
  /\ rq' = [rq EXCEPT ![c] =
              [@ EXCEPT !.st = "fetched", !.snapv = dbSnap[rq[c].f].v,
                        !.doc = ReadSnapshots(dbSnap[rq[c].f], page, rq[c].f, "ok"),
                        !.io = "ok"]]
  /\ UNCHANGED <<nsub, lastWrite, lastFailed, done>>
  /\ UNCHANGED <<otVars, yjsVars, presVars, sessVars, addrVars>>

\* 'apply' middleware: existingPage = await getWikiPage(...)
StGetWikiPage(c) ==
  /\ rq[c].st = "fetched"
  /\ \E io \in {"ok", "readFails"} :
       rq' = [rq EXCEPT ![c] = [@ EXCEPT !.st = "read", !.pd = GetWikiPage(page, io),
                                         !.io = io]]
  /\ UNCHANGED <<nsub, lastWrite, lastFailed, done>>
  /\ UNCHANGED <<otVars, yjsVars, presVars, sessVars, addrVars>>

\* 'apply' middleware: pageData = existingPage || {}, the field is set and
\* await saveWikiPage(...) writes the whole page; saveWikiPage first makes
\* the session directory when fs.access does not find it
StSaveWikiPage(c) ==
  /\ rq[c].st = "read"
  /\ LET f == rq[c].f
         pageData == SetField(rq[c].pd, f, rq[c].doc.data) IN
     \E io \in {"ok", "saveFails"} :
       /\ page' = SaveWikiPage(page, pageData, io)
       /\ IF PageKeys \subseteq DOMAIN pageData /\ io = "ok"
          THEN /\ lastWrite' = [lastWrite EXCEPT ![f] = rq[c].doc.v]
               /\ UNCHANGED lastFailed
               /\ rq' = [rq EXCEPT ![c] = [@ EXCEPT !.st = "saved", !.pd = NoPage]]
          ELSE /\ lastFailed' = [lastFailed EXCEPT ![f] =
                                   IF rq[c].doc.v > @ THEN rq[c].doc.v ELSE @]
               /\ UNCHANGED lastWrite
               /\ rq' = [rq EXCEPT ![c] =
                           [@ EXCEPT !.st = "saved", !.pd = NoPage,
                                     !.io = IF @ = "ok" THEN io ELSE @]]
  /\ UNCHANGED <<nsub, done>>
  /\ UNCHANGED <<dbSnap, opLog, subs, toServer, toClient, cl, last>>
  /\ sessionDir' = sessionDir \cup {StoreSession}
  /\ UNCHANGED <<sessionRow, refused, joins, createFailed>>
  /\ UNCHANGED <<yjsVars, presVars, addrVars>>

\* mutant: the failure is handed to next(), which refuses the operation
NextErrorPassed(io) == IF io = "ok" THEN "none" ELSE io

\* the error the 'apply' middleware hands to next(): every exception is
\* caught and logged, next() is called without an argument
NextError(io) == "none"

\* after next(): the operation, transformed over the operations it missed,
\* is applied to the snapshot read at the start and db.commit succeeds when
\* no other operation was committed since; the operation is then published
\* and acknowledged. Otherwise the request is retried.
StCommit(c) ==
  /\ rq[c].st = "saved"
  /\ LET f == rq[c].f
         r == rq[c]
         op == TransformOver(r.m, SubSeq(opLog[f], r.m.v + 1, r.snapv))
         new == OtApply(dbSnap[f], op) IN
     IF NextError(r.io) # "none" \/ op.t = "err" \/ ~ OtApplicable(dbSnap[f], op)
     THEN /\ done' = [res |-> "err", io |-> r.io, applied |-> FALSE, published |-> FALSE]
          /\ rq' = [rq EXCEPT ![c] = NoRequest]
          /\ UNCHANGED <<dbSnap, opLog>>
     ELSE IF dbSnap[f].v # r.snapv
     THEN /\ rq' = [rq EXCEPT ![c] = [@ EXCEPT !.st = "retry", !.doc = NullSnapshot]]
          /\ UNCHANGED <<dbSnap, opLog, done>>
     ELSE /\ dbSnap' = [dbSnap EXCEPT ![f] = new]
          /\ opLog' = [opLog EXCEPT ![f] = Append(@, op)]
          /\ done' = [res |-> "ok", io |-> r.io,
                      applied |-> new.v = dbSnap[f].v + 1 /\ new.data = r.m.oi,
                      published |-> TRUE]
          /\ rq' = [rq EXCEPT ![c] = NoRequest]
  /\ UNCHANGED <<nsub, lastWrite, lastFailed>>
  /\ UNCHANGED <<page, subs, toServer, toClient, cl, last>>
  /\ UNCHANGED <<yjsVars, presVars, sessVars, addrVars>>

NextStore ==
  \/ \E c \in Clients : StSubmit(c)
  \/ \E c \in Clients : StRetry(c)
  \/ \E c \in Clients : StGetWikiPage(c)
  \/ \E c \in Clients : StSaveWikiPage(c)
  \/ \E c \in Clients : StCommit(c)

\* ------------------------------------------------------------------------
\* Session registry of sessionManager.js
\* ------------------------------------------------------------------------

\* what a call to the file system or to the database does
Outcomes == {"ok", "fails"}

\* createSession of sessionManager.js under a new id: fs.mkdir, then the
\* session is put into the sessions map, then saveSession is awaited;
\* nothing catches a rejection, so createSession throws where it happens
SmCreateSession(s) ==
  /\ s \notin sessions
  /\ s \notin sessionRow
  /\ \E at \in {"none", "mkdir", "saveSession"} :
       /\ sessionDir' = IF at = "mkdir" THEN sessionDir ELSE sessionDir \cup {s}
       /\ sessions' = IF at = "mkdir" THEN sessions ELSE sessions \cup {s}
       /\ sessionRow' = IF at = "none" THEN sessionRow \cup {s} ELSE sessionRow
       /\ createFailed' = IF at = "none" THEN createFailed ELSE createFailed \cup {s}
  /\ UNCHANGED <<docs, docAwareness, ydoc, awStates, deleting, yws, nframes, lastFrame>>
  /\ UNCHANGED <<refused, joins>>
  /\ UNCHANGED <<otVars, presVars, storeVars, addrVars>>

\* DELETE /delete for a session found by its key, and deleteSession up to
\* the end of fs.rm: the directory goes with every page file in it; when
\* fs.rm rejects the error is logged
SmDeleteSessionRm(s) ==
  /\ s \in sessionRow
  /\ s \notin deleting
  /\ deleting' = deleting \cup {s}
  /\ \E io \in Outcomes :
       IF io = "ok"
       THEN /\ sessionDir' = sessionDir \ {s}
            /\ page' = IF s = StoreSession THEN NoPage ELSE page
       ELSE UNCHANGED <<sessionDir, page>>
  /\ UNCHANGED <<sessionRow, refused, joins, createFailed>>
  /\ UNCHANGED <<docs, docAwareness, ydoc, awStates, sessions, yws, nframes, lastFrame>>
  /\ UNCHANGED <<dbSnap, opLog, subs, toServer, toClient, cl, last>>
  /\ UNCHANGED <<presVars, storeVars, addrVars>>

\* deleteSession from deleteSessionFromDB to its end: when the database
\* rejects the error is logged; the session leaves the sessions map
SmDeleteSessionFinish(s) ==
  /\ s \in deleting
  /\ deleting' = deleting \ {s}
  /\ sessions' = sessions \ {s}
  /\ \E io \in Outcomes :
       sessionRow' = IF io = "ok" THEN sessionRow \ {s} ELSE sessionRow
  /\ UNCHANGED <<sessionDir, refused, joins, createFailed>>
  /\ UNCHANGED <<docs, docAwareness, ydoc, awStates, yws, nframes, lastFrame>>
  /\ UNCHANGED <<otVars, presVars, storeVars, addrVars>>

\* ------------------------------------------------------------------------
\* POST /join (routes/session.js) over getSession and addUserToSession
\* ------------------------------------------------------------------------

\* join requests that are being processed
Joining == {r \in Callers : joins.calls[r] # "idle"}

\* addUserToSession under a new user id: the user is put into the users
\* map of the session object that the sessions map holds at that moment
AddUserToSession(j, s, present) ==
  [j EXCEPT !.n = @ + 1,
            !.users[s] = IF present THEN @ \cup {j.n + 1} ELSE @,
            !.added = IF present THEN @ \cup {j.n + 1} ELSE @]

\* POST /join with the secret key of session s: a session found in memory
\* by its key gets the user at once; otherwise the route awaits
\* getSessionBySecretKey
JoinBegin(r, s) ==
  /\ joins.calls[r] = "idle"
  /\ joins.n + Cardinality(Joining) < MaxSubmits
  /\ s \in sessions \/ s \in sessionRow
  /\ joins' = IF s \in sessions
              THEN AddUserToSession(joins, s, TRUE)
              ELSE [joins EXCEPT !.calls[r] = "keyLookup"]
  /\ UNCHANGED <<sessionDir, sessionRow, refused, createFailed>>
  /\ UNCHANGED <<otVars, yjsVars, presVars, storeVars, addrVars>>

\* the row was found and getSession(id) is called: a session that is in
\* the map is returned and the route adds the user; otherwise getSession
\* awaits getSessionFromDB
JoinGetSession(r, s) ==
  /\ joins.calls[r] = "keyLookup"
  /\ joins' = IF s \in sessions
              THEN [AddUserToSession(joins, s, TRUE) EXCEPT !.calls[r] = "idle"]
              ELSE [joins EXCEPT !.calls[r] = "loading"]
  /\ UNCHANGED <<sessionDir, sessionRow, refused, createFailed>>
  /\ UNCHANGED <<otVars, yjsVars, presVars, storeVars, addrVars>>

\* getSessionFromDB has answered: getSession puts a new session object
\* with an empty users map into the sessions map and returns it, and the
\* route adds the user
JoinLoaded(r, s) ==
  /\ joins.calls[r] = "loading"
  /\ sessions' = sessions \cup {s}
  /\ joins' = [AddUserToSession([joins EXCEPT !.users[s] = {}], s, TRUE)
                 EXCEPT !.calls[r] = "idle"]
  /\ UNCHANGED <<docs, docAwareness, ydoc, awStates, deleting, yws, nframes, lastFrame>>
  /\ UNCHANGED <<sessionDir, sessionRow, refused, createFailed>>
  /\ UNCHANGED <<otVars, presVars, storeVars, addrVars>>

\* a request that looks the session up by its id (GET /:sessionId, the
\* routes of routes/users.js): getSession does not find it in the map and
\* awaits getSessionFromDB
LookupBegin(r, s) ==
  /\ joins.calls[r] = "idle"
  /\ s \notin sessions
  /\ s \in sessionRow \/ s \in sessionDir
  /\ joins' = [joins EXCEPT !.calls[r] = "lookup"]
  /\ UNCHANGED <<sessionDir, sessionRow, refused, createFailed>>
  /\ UNCHANGED <<otVars, yjsVars, presVars, storeVars, addrVars>>

\* getSessionFromDB has answered the lookup: getSession puts a new session
\* object with an empty users map into the sessions map
LookupLoaded(r, s) ==
  /\ joins.calls[r] = "lookup"
  /\ sessions' = sessions \cup {s}
  /\ joins' = [joins EXCEPT !.calls[r] = "idle", !.users[s] = {}]
  /\ UNCHANGED <<docs, docAwareness, ydoc, awStates, deleting, yws, nframes, lastFrame>>
  /\ UNCHANGED <<sessionDir, sessionRow, refused, createFailed>>
  /\ UNCHANGED <<otVars, presVars, storeVars, addrVars>>

NextJoin ==
  \/ \E r \in Callers : \E s \in SessionIds : JoinBegin(r, s)
  \/ \E r \in Callers : \E s \in SessionIds : JoinGetSession(r, s)
  \/ \E r \in Callers : \E s \in SessionIds : JoinLoaded(r, s)
  \/ \E r \in Callers : \E s \in SessionIds : LookupBegin(r, s)
  \/ \E r \in Callers : \E s \in SessionIds : LookupLoaded(r, s)

\* ------------------------------------------------------------------------
\* Presence channel (sharedbServer.js, connections on '/presence')
\* ------------------------------------------------------------------------

\* the userId is chosen by the client: the two editors of one page, and a
\* reconnecting editor, register the same userId on different connections
UserIds == {"u1", "u2"}
Filenames == {"X", "Y"}
Cursors == {"undefined", "5"}

\* data.cursorPosition || 0
OrZero(x) == IF x = "undefined" THEN "0" ELSE x

NoRecord == [userId |-> "none", filename |-> "none", cursorPosition |-> "none"]
NoPresence == [users |-> {}, to |-> {}]

\* the request url: '/presence', or any other url (a ShareDB connection)
Urls == {"/presence", "/"}

NoEvent == [c |-> 0, kind |-> "none"]
Event(c, kind) == [c |-> c, kind |-> kind]

InitPresence ==
  /\ up = TRUE
  /\ pws = [c \in Conns |-> "none"]
  /\ purl = [c \in Conns |-> "none"]
  /\ connections = [c \in Conns |-> NoRecord]
  /\ registered = [c \in Conns |-> "none"]
  /\ lastPresence = NoPresence
  /\ lastMsg = NoEvent

\* mutant: sent to the registered connections only
BroadcastPresenceRegistered(conn, ws) ==
  [users |-> {[conn |-> c, rec |-> conn[c]] : c \in {k \in Conns : conn[k] # NoRecord}},
   to |-> {c \in Conns : ws[c] = "open" /\ conn[c] # NoRecord}]

\* broadcastPresence: Array.from(connections.values()) to every open client
BroadcastPresence(conn, ws) ==
  [users |-> {[conn |-> c, rec |-> conn[c]] : c \in {k \in Conns : conn[k] # NoRecord}},
   to |-> {c \in Conns : ws[c] = "open"}]

\* a client opens a websocket; connections are numbered in the order in
\* which they are accepted
PConnect(c) ==
  /\ up
  /\ pws[c] = "none"
  /\ \A k \in Conns : k < c => pws[k] # "none"
  /\ pws' = [pws EXCEPT ![c] = "open"]
  /\ \E url \in Urls : purl' = [purl EXCEPT ![c] = url]
  /\ UNCHANGED <<up, connections, registered, lastPresence, lastMsg>>
  /\ UNCHANGED <<otVars, yjsVars, storeVars, sessVars, addrVars>>

\* mutant: the records are kept by userId, a user-info replaces the record
\* that another connection registered under the same userId
UserInfoByUserId(c) ==
  /\ up
  /\ pws[c] = "open" /\ purl[c] = "/presence"
  /\ \E userId \in UserIds, filename \in Filenames, cursorPosition \in Cursors :
       /\ connections' = [k \in Conns |->
                            IF k = c
                            THEN [userId |-> userId, filename |-> filename,
                                  cursorPosition |-> OrZero(cursorPosition)]
                            ELSE IF connections[k].userId = userId
                                 THEN NoRecord ELSE connections[k]]
       /\ registered' = [registered EXCEPT ![c] = userId]
  /\ lastPresence' = BroadcastPresence(connections', pws)
  /\ lastMsg' = Event(c, "user-info")
  /\ UNCHANGED <<up, pws, purl>>
  /\ UNCHANGED <<otVars, yjsVars, storeVars, sessVars, addrVars>>

\* message {type: 'user-info', ...}
UserInfo(c) ==
  /\ up
  /\ pws[c] = "open" /\ purl[c] = "/presence"
  /\ \E userId \in UserIds, filename \in Filenames, cursorPosition \in Cursors :
       /\ connections' = [connections EXCEPT ![c] =
                            [userId |-> userId, filename |-> filename,
                             cursorPosition |-> OrZero(cursorPosition)]]
       /\ registered' = [registered EXCEPT ![c] = userId]
  /\ lastPresence' = BroadcastPresence(connections', pws)
  /\ lastMsg' = Event(c, "user-info")
  /\ UNCHANGED <<up, pws, purl>>
  /\ UNCHANGED <<otVars, yjsVars, storeVars, sessVars, addrVars>>

\* mutant: a cursor-update registers the connection
CursorUpdateAlways(c) ==
  /\ up
  /\ pws[c] = "open" /\ purl[c] = "/presence"
  /\ \E filename \in Filenames, cursorPosition \in Cursors :
       connections' = [connections EXCEPT ![c] =
                         [@ EXCEPT !.filename = filename,
                                   !.cursorPosition = cursorPosition]]
  /\ lastPresence' = BroadcastPresence(connections', pws)
  /\ lastMsg' = Event(c, "cursor-update")
  /\ UNCHANGED <<up, pws, purl, registered>>
  /\ UNCHANGED <<otVars, yjsVars, storeVars, sessVars, addrVars>>

\* message {type: 'cursor-update', ...}: nothing happens without a record
CursorUpdate(c) ==
  /\ up
  /\ pws[c] = "open" /\ purl[c] = "/presence"
  /\ IF connections[c] # NoRecord
     THEN /\ \E filename \in Filenames, cursorPosition \in Cursors :
               connections' = [connections EXCEPT ![c] =
                                 [@ EXCEPT !.filename = filename,
                                           !.cursorPosition = cursorPosition]]
          /\ lastPresence' = BroadcastPresence(connections', pws)
     ELSE UNCHANGED <<connections, lastPresence>>
  /\ lastMsg' = Event(c, "cursor-update")
  /\ UNCHANGED <<up, pws, purl, registered>>
  /\ UNCHANGED <<otVars, yjsVars, storeVars, sessVars, addrVars>>

\* mutant: the connection that sent the message is closed
PBadMessageCloses(c) ==
  /\ up
  /\ pws[c] = "open" /\ purl[c] = "/presence"
  /\ lastMsg' = Event(c, "malformed")
  /\ pws' = [pws EXCEPT ![c] = "closed"]
  /\ connections' = [connections EXCEPT ![c] = NoRecord]
  /\ lastPresence' = BroadcastPresence(connections', pws')
  /\ UNCHANGED <<up, purl, registered>>
  /\ UNCHANGED <<otVars, yjsVars, storeVars, sessVars, addrVars>>

\* a message that is not valid JSON: JSON.parse throws, the catch logs it
PBadMessage(c) ==
  /\ up
  /\ pws[c] = "open" /\ purl[c] = "/presence"
  /\ lastMsg' = Event(c, "malformed")
  /\ UNCHANGED <<up, pws, purl, connections, registered, lastPresence>>
  /\ UNCHANGED <<otVars, yjsVars, storeVars, sessVars, addrVars>>

\* mutant: the record is left in the map
PCloseKeep(c) ==
  /\ up
  /\ pws[c] = "open"
  /\ pws' = [pws EXCEPT ![c] = "closed"]
  /\ connections' = connections
  /\ lastPresence' = IF purl[c] = "/presence"
                     THEN BroadcastPresence(connections', pws') ELSE lastPresence
  /\ lastMsg' = Event(c, "close")
  /\ UNCHANGED <<up, purl, registered>>
  /\ UNCHANGED <<otVars, yjsVars, storeVars, sessVars, addrVars>>

\* ws.on('close'): connections.delete(ws), then broadcastPresence; the
\* close handler of a ShareDB connection only logs
PClose(c) ==
  /\ up
  /\ pws[c] = "open"
  /\ pws' = [pws EXCEPT ![c] = "closed"]
  /\ connections' = [connections EXCEPT ![c] = NoRecord]
  /\ lastPresence' = IF purl[c] = "/presence"
                     THEN BroadcastPresence(connections', pws') ELSE lastPresence
  /\ lastMsg' = Event(c, "close")
  /\ UNCHANGED <<up, purl, registered>>
  /\ UNCHANGED <<otVars, yjsVars, storeVars, sessVars, addrVars>>

\* the websocket emits 'error' (an invalid frame on the wire). A ShareDB
\* connection has an 'error' listener that logs. A presence connection has
\* none: the event is thrown as an uncaught exception and the process,
\* with every connection and the connections map, is gone.
PError(c) ==
  /\ up
  /\ pws[c] = "open"
  /\ lastMsg' = Event(c, "error")
  /\ IF purl[c] = "/presence"
     THEN /\ up' = FALSE
          /\ pws' = [k \in Conns |-> IF pws[k] = "open" THEN "closed" ELSE pws[k]]
          /\ connections' = [k \in Conns |-> NoRecord]
     ELSE UNCHANGED <<up, pws, connections>>
  /\ UNCHANGED <<purl, registered, lastPresence>>
  /\ UNCHANGED <<otVars, yjsVars, storeVars, sessVars, addrVars>>

NextPresence ==
  \/ \E c \in Conns : PConnect(c)
  \/ \E c \in Conns : UserInfo(c)
  \/ \E c \in Conns : CursorUpdate(c)
  \/ \E c \in Conns : PBadMessage(c)
  \/ \E c \in Conns : PClose(c)
  \/ \E c \in Conns : PError(c)

\* ------------------------------------------------------------------------
\* Document ids (sharedbServer.js, 'readSnapshots' and 'apply' middleware)
\* ------------------------------------------------------------------------

\* a filename is a sequence of pieces of text: a piece without '/' and
\* without either suffix, or the text '-definition', or the text '-details'
Pieces == {"page", "-definition", "-details"}
PageFilenames == UNION {[1..n -> Pieces] : n \in 1..MaxLen}
Kinds == {"definition", "details", "page"}

NoAddr == [sessionId |-> "none", filename |-> << >>, fieldName |-> "none"]
Invalid == [sessionId |-> "invalid", filename |-> << >>, fieldName |-> "none"]

\* `${sessionId}/${filename}-definition`, `${sessionId}/${filename}-details`,
\* or the id of the whole page
DocId(s, f, kind) ==
  <<s, "/">> \o f \o (IF kind = "page" THEN << >> ELSE <<"-" \o kind>>)

RECURSIVE Split(_)
\* id.split('/')
Split(str) ==
  IF \A i \in 1..Len(str) : str[i] # "/" THEN <<str>>
  ELSE LET i == CHOOSE j \in 1..Len(str) :
                  str[j] = "/" /\ \A k \in 1..(j - 1) : str[k] # "/" IN
       <<SubSeq(str, 1, i - 1)>> \o Split(SubSeq(str, i + 1, Len(str)))

\* str.endsWith(suffix)
EndsWith(str, suffix) == Len(str) > 0 /\ str[Len(str)] = suffix

\* str.replace(text, ''): the first occurrence of the text is removed
ReplaceFirst(str, text) ==
  IF \A i \in 1..Len(str) : str[i] # text THEN str
  ELSE LET i == CHOOSE j \in 1..Len(str) :
                  str[j] = text /\ \A k \in 1..(j - 1) : str[k] # text IN
       SubSeq(str, 1, i - 1) \o SubSeq(str, i + 1, Len(str))

\* the session, file and field the middleware takes from a document id
ParseDocId(id) ==
  LET parts == Split(id) IN
  IF Len(parts) # 2 THEN Invalid
  ELSE LET sessionId == parts[1][1]
           filenameWithSuffix == parts[2] IN
       IF EndsWith(filenameWithSuffix, "-definition")
       THEN [sessionId |-> sessionId,
             filename |-> ReplaceFirst(filenameWithSuffix, "-definition"),
             fieldName |-> "definition"]
       ELSE IF EndsWith(filenameWithSuffix, "-details")
       THEN [sessionId |-> sessionId,
             filename |-> ReplaceFirst(filenameWithSuffix, "-details"),
             fieldName |-> "details"]
       ELSE [sessionId |-> sessionId, filename |-> filenameWithSuffix,
             fieldName |-> "page"]

\* no middleware has been called
InitAddr ==
  addr = [s |-> "none", f |-> << >>, kind |-> "none", resolved |-> NoAddr]

\* a document of a page of a session is about to be opened
InitDocIds ==
  /\ InitOT /\ InitYjs /\ InitPresence /\ InitRequests /\ InitSessions
  /\ \E s \in SessionIds, f \in PageFilenames, kind \in Kinds :
       addr = [s |-> s, f |-> f, kind |-> kind, resolved |-> NoAddr]

\* the middleware is called with the id of the document
ResolveDocId ==
  /\ addr.resolved = NoAddr
  /\ addr' = [addr EXCEPT !.resolved = ParseDocId(DocId(addr.s, addr.f, addr.kind))]
  /\ UNCHANGED <<otVars, yjsVars, presVars, storeVars, sessVars>>

NextDocIds == ResolveDocId

\* ------------------------------------------------------------------------
\* The system: the three channels keep separate state
\* ------------------------------------------------------------------------

vars == <<otVars, yjsVars, presVars, storeVars, sessVars, addrVars>>

Init == InitOT /\ InitYjs /\ InitPresence /\ InitRequests /\ InitSessions /\ InitAddr

\* the ShareDB channel
SpecOT == Init /\ [][NextOT]_vars

\* the Yjs channel
SpecYjs == Init /\ [][NextYjs]_vars

\* the presence channel
SpecPresence == Init /\ [][NextPresence]_vars

\* no Yjs connection was made and no session registered
YjsUnused == yjsVars = <<[n \in DocNames |-> NoDoc], [n \in DocNames |-> NoDoc],
                         [d \in Conns |-> << >>], [d \in Conns |-> {}], {}, {},
                         [c \in Conns |-> NewWs], 0, NoFrame>>

\* no ShareDB message is in flight
OTIdle ==
  \A c \in Clients : toServer[c] = << >> /\ toClient[c] = << >> /\ cl[c].inflight.t = "none"

\* document creation on the two document channels before any edit: editors
\* subscribe and create, connections open and close, the session is
\* registered and deleted. The channels share no state, so the steps of
\* the ShareDB channel are taken first.
NextDocs ==
  \/ \E c \in Clients : YjsUnused /\ Subscribe(c)
  \/ \E c \in Clients : YjsUnused /\ RecvSnapshot(c)
  \/ \E c \in Clients : YjsUnused /\ RecvOp(c)
  \/ \E c \in Clients : YjsUnused /\ RecvAck(c)
  \/ \E c \in Clients : YjsUnused /\ RecvError(c)
  \/ \E c \in Clients : YjsUnused /\ ServeSnapshot(c)
  \/ \E c \in Clients : YjsUnused /\ Submit(c)
  \/ \E c \in Conns : OTIdle /\ YConnect(c)
  \/ \E c \in Conns : OTIdle /\ YClose(c)
  \/ \E s \in SessionIds : OTIdle /\ CreateSession(s)
  \/ \E s \in SessionIds : OTIdle /\ DeleteSessionBegin(s)
  \/ \E s \in SessionIds : OTIdle /\ DeleteSessionFinish(s)
  \/ \E s \in SessionIds : OTIdle /\ DeleteSessionFail(s)

SpecDocs == Init /\ [][NextDocs]_vars

\* a further socket can be accepted: NumConns sockets in all, on the
\* websocket server of server.js and on the Yjs websocket server
SocketLeft ==
  Cardinality({c \in Conns : pws[c] # "none"})
    + Cardinality({c \in Conns : yws[c].state # "none"}) < NumConns

\* connections that register, send malformed frames, raise 'error' and
\* close, on the presence and Yjs channels
NextWire ==
  \/ \E c \in Conns : SocketLeft /\ PConnect(c)
  \/ \E c \in Conns : UserInfo(c)
  \/ \E c \in Conns : PBadMessage(c)
  \/ \E c \in Conns : PClose(c)
  \/ \E c \in Conns : PError(c)
  \/ \E c \in Conns : SocketLeft /\ YConnect(c)
  \/ \E c \in Conns : YBadFrame(c)
  \/ \E c \in Conns : YError(c)
  \/ \E c \in Conns : YClose(c)

SpecWire == Init /\ [][NextWire]_vars

\* the ShareDB channel with both ways in which an editor submits
NextEdit ==
  \/ \E c \in Clients : Subscribe(c)
  \/ \E c \in Clients : RecvSnapshot(c)
  \/ \E c \in Clients : HandleChange(c)
  \/ \E c \in Clients : InitialValueEffect(c)
  \/ \E c \in Clients : RecvOp(c)
  \/ \E c \in Clients : RecvAck(c)
  \/ \E c \in Clients : RecvError(c)
  \/ \E c \in Clients : ServeSnapshot(c)
  \/ \E c \in Clients : Submit(c)
  \/ RestCreatePage

SpecEdit == Init /\ [][NextEdit]_vars

\* the Yjs channel with the handshake frames of its clients
NextSync ==
  \/ \E c \in Conns : YConnect(c)
  \/ \E c \in Conns : YSyncStep1(c)
  \/ \E c \in Conns : OnMessage(c)
  \/ \E c \in Conns : YClose(c)

SpecSync == Init /\ [][NextSync]_vars

\* the server starts while the sessions of an earlier run have their rows
\* and directories
InitRestarted ==
  /\ InitOT /\ InitYjs /\ InitPresence /\ InitRequests /\ InitAddr
  /\ sessionRow \in SUBSET SessionIds
  /\ sessionDir = sessionRow
  /\ refused = {}
  /\ joins = NoJoins
  /\ createFailed = {}

\* sessions are created by either module, joined by their key and looked
\* up by their id
NextCreate ==
  \/ \E s \in SessionIds : CreateSession(s)
  \/ \E s \in SessionIds : CreateSessionFail(s)
  \/ \E s \in SessionIds : SmCreateSession(s)
  \/ \E r \in Callers : \E s \in SessionIds : JoinBegin(r, s)
  \/ \E r \in Callers : \E s \in SessionIds : LookupBegin(r, s)
  \/ \E r \in Callers : \E s \in SessionIds : LookupLoaded(r, s)

SpecCreate == Init /\ [][NextCreate]_vars

\* the join requests of a server that was restarted
SpecJoin == InitRestarted /\ [][NextJoin]_vars

\* the sessions of the server: created, registered from the database,
\* deleted, with the connections that fill the document cache
NextSessions ==
  \/ \E c \in Conns : YConnect(c)
  \/ \E c \in Conns : YClose(c)
  \/ \E s \in SessionIds : CreateSession(s)
  \/ \E s \in SessionIds : GetSession(s)
  \/ \E s \in SessionIds : DeleteSessionBegin(s)
  \/ \E s \in SessionIds : DeleteSessionNotLoaded(s)
  \/ \E s \in SessionIds : DeleteSessionFinish(s)
  \/ \E s \in SessionIds : DeleteSessionFail(s)
  \/ \E s \in SessionIds : DeleteSessionFailDB(s)

SpecSessions == InitRestarted /\ [][NextSessions]_vars

\* the resolution of document ids
SpecDocIds == InitDocIds /\ [][NextDocIds]_vars

\* both field documents of a page exist at version 1 with the text of the
\* page file, no editor is connected through the client model
InitStore ==
  /\ page = PagePresent(<<"p">>)
  /\ dbSnap = [f \in Fields |-> [type |-> "json0", v |-> 1, data |-> page[f]]]
  /\ opLog = [f \in Fields |-> <<Msg("create", 0, << >>, page[f], 0)>>]
  /\ subs = {}
  /\ toServer = [c \in Clients |-> << >>]
  /\ toClient = [c \in Clients |-> << >>]
  /\ cl = [c \in Clients |-> NewDoc]
  /\ last = NoSubmit
  /\ InitYjs /\ InitPresence /\ InitRequests /\ InitAddr
  /\ sessionDir = {StoreSession}
  /\ sessionRow = {StoreSession}
  /\ refused = {}
  /\ joins = NoJoins
  /\ createFailed = {}

\* the submit requests of the ShareDB backend, interleaved
SpecStore == InitStore /\ [][NextStore]_vars

\* the same, where every request that was received is processed to its
\* end (the event loop runs every callback that is due); no editor is
\* obliged to type again
SpecStoreFair ==
  /\ InitStore /\ [][NextStore]_vars
  /\ \A c \in Clients : /\ WF_vars(StRetry(c))
                        /\ WF_vars(StGetWikiPage(c))
                        /\ WF_vars(StSaveWikiPage(c))
                        /\ WF_vars(StCommit(c))

\* the submit requests of the ShareDB backend while the session of their
\* documents is deleted
NextDeleted ==
  \/ \E c \in Clients : StSubmit(c)
  \/ \E c \in Clients : StRetry(c)
  \/ \E c \in Clients : StGetWikiPage(c)
  \/ \E c \in Clients : StSaveWikiPage(c)
  \/ \E c \in Clients : StCommit(c)
  \/ \E s \in SessionIds : SmDeleteSessionRm(s)
  \/ \E s \in SessionIds : SmDeleteSessionFinish(s)

SpecDeleted == InitStore /\ [][NextDeleted]_vars

\* ------------------------------------------------------------------------
\* ShareDB channel: properties
\* ------------------------------------------------------------------------

\* nothing is in flight and every editor has loaded its document
Quiet ==
  \A c \in Clients : /\ toServer[c] = << >> /\ toClient[c] = << >>
                     /\ cl[c].st = "ready" /\ cl[c].inflight.t = "none"

\* every client has submitted one replace operation, and all of them were
\* computed against the same version
EachSubmittedFromSameVersion ==
  /\ \A c \in Clients : cl[c].nops = 1
  /\ \A c, k \in Clients : cl[c].base = cl[k].base

Converged ==
  \A c \in Clients : /\ cl[c].type = "json0"
                     /\ cl[c].data = Served(DocOf(c)).data

\* C1 - Convergence: once N distinct clients have each submitted one replace
\* operation computed against the same version and every message has been
\* delivered, all clients hold the same content, which is the server's content.
C1_Convergence == (Quiet /\ EachSubmittedFromSameVersion) => Converged

Sources(ops) == {ops[i].src : i \in {j \in 1..Len(ops) : ops[j].t = "op"}}

\* the case of C1: the concurrent operations of all clients were accepted,
\* all but the first after being transformed, and everything was delivered
C1_Witness ==
  /\ Quiet /\ EachSubmittedFromSameVersion
  /\ \A f \in Fields : (\E c \in Clients : DocOf(c) = f) => Sources(opLog[f]) = Clients
  /\ last.xf

Contains(text, part) == \A i \in 1..Len(part) : \E j \in 1..Len(text) : text[j] = part[i]

\* the submit settled last is an operation B that was accepted after being
\* transformed over an operation A accepted before it
TransformedOp == last.t = "op" /\ last.res = "ok" /\ last.xf

\* C2 as claimed - Conflict policy: the text produced by the already accepted
\* operation A is kept, B's delete does not remove it.
C2_AcceptedTextKept == TransformedOp => Contains(last.result, last.aoi)

\* C2 as amended - B's delete is rewritten to delete the content A produced,
\* and B's inserted content replaces it: the operation accepted later wins.
C2_LaterOpReplaces ==
  TransformedOp => /\ last.prev = last.aoi
                   /\ last.od = last.aoi
                   /\ last.result = last.oi
                   /\ dbSnap[last.f].data = last.oi

C2_Witness == TransformedOp /\ last.aoi # last.oi /\ last.aoi # << >>

\* C3 - Version monotonicity: every accepted operation increases the version
\* by exactly 1, an operation submitted against the current version of the
\* document (the version the server hands to its subscribers) is accepted,
\* and no two accepted operations of one document share a version.
C3_VersionMonotonic ==
  /\ last.res = "ok" => last.newv = last.dbv + 1 /\ dbSnap[last.f].v = last.newv
  /\ (last.res # "none" /\ last.base = last.served) => last.res = "ok"
  /\ \A f \in Fields : \A i, j \in 1..Len(opLog[f]) : i # j => opLog[f][i].v # opLog[f][j].v

\* C8 - Persistence of converged content: after the server has accepted an
\* operation on a field document of an existing page and no further
\* operation follows, the page file's field equals the document's content
\* after that operation.
C8_StoredEqualsContent ==
  (last.t = "op" /\ last.res = "ok" /\ last.pg)
  => (PageExists(page) /\ page[last.f] = dbSnap[last.f].data)

\* ------------------------------------------------------------------------
\* Document creation: properties
\* ------------------------------------------------------------------------

Creates(f) == {i \in 1..Len(opLog[f]) : opLog[f][i].t = "create"}

\* at most one create is accepted, and once the editors that called create
\* have their answers they all hold the content and version of that create
OneInitialization ==
  /\ \A f \in Fields : Cardinality(Creates(f)) <= 1
  /\ (OTIdle /\ OpsTyped = 0 /\ \E c \in Clients : cl[c].created)
     => \A c \in Clients :
          cl[c].created =>
            /\ Creates(DocOf(c)) = {1}
            /\ cl[c].type = "json0"
            /\ cl[c].v = dbSnap[DocOf(c)].v
            /\ cl[c].data = dbSnap[DocOf(c)].data
            /\ cl[c].data = opLog[DocOf(c)][1].oi

\* the connections of one document name all hold one Y.Doc instance
OneInstancePerName ==
  \A c, k \in Conns :
    (yws[c].docName # NoName /\ yws[c].docName = yws[k].docName) => yws[c].doc = yws[k].doc

Accepted(c, n) == yws[c].state = "none" /\ yws'[c].state = "open" /\ yws'[c].docName = n

\* getOrCreateDoc returns the cached instance and never replaces it; an
\* entry leaves the cache only when deleteSession of its session completes
CachedInstanceReturned ==
  /\ \A c \in Conns : \A n \in DocNames :
       Accepted(c, n) => /\ yws'[c].doc = docs'[n]
                         /\ docs[n] # NoDoc => docs'[n] = docs[n]
                         /\ \A m \in DocNames \ {n} : docs'[m] = docs[m]
  /\ \A n \in DocNames :
       (docs[n] # NoDoc /\ docs'[n] # docs[n])
       => /\ docs'[n] = NoDoc
          /\ \E s \in SessionIds : /\ s \in sessions /\ s \notin sessions'
                                   /\ StartsWith(n, SessionPrefix(s))

Closed(c) == up /\ pws[c] = "closed" /\ registered[c] # "none"

\* C5 as claimed - Presence cleanup: after a registered connection closes
\* the registry holds no record for it and no presence broadcast includes
\* that connection's userId.
C5_UserIdGone ==
  \A c \in Conns :
    Closed(c) => /\ connections[c] = NoRecord
                 /\ \A u \in lastPresence.users : u.rec.userId # registered[c]

\* C5 as amended - after a registered connection closes the registry holds
\* no record for it, and no presence broadcast includes that connection's
\* record or is sent to it; its userId is still listed when another open
\* connection registered the same userId.
C5_RecordGone ==
  \A c \in Conns :
    Closed(c) => /\ connections[c] = NoRecord
                 /\ \A u \in lastPresence.users : u.conn # c
                 /\ c \notin lastPresence.to

\* a registered connection has closed while another connection with the
\* same userId stays registered
C5_Witness ==
  \E c, k \in Conns : /\ Closed(c) /\ pws[k] = "open"
                      /\ connections[k].userId = registered[c]
                      /\ [conn |-> k, rec |-> connections[k]] \in lastPresence.users

\* ------------------------------------------------------------------------
\* Yjs channel: properties
\* ------------------------------------------------------------------------

IsUpdate(f) == f.t = "update"
Applied(d) == {ydoc[d][i] : i \in 1..Len(ydoc[d])}
PosIn(seq, u) == CHOOSE i \in 1..Len(seq) : seq[i] = u

\* C6 - Broadcast order: a connection that is sent two updates of one
\* document is sent them in the order in which the server applied them.
C6_BroadcastOrder ==
  \A c \in Conns : \A i, j \in 1..Len(yws[c].out) :
    (i < j /\ IsUpdate(yws[c].out[i]) /\ IsUpdate(yws[c].out[j]))
    => \A d \in Conns :
         ({yws[c].out[i].u[1], yws[c].out[j].u[1]} \subseteq Applied(d))
         => PosIn(ydoc[d], yws[c].out[i].u[1]) < PosIn(ydoc[d], yws[c].out[j].u[1])

\* a connection was sent two updates applied to one document
C6_Witness ==
  \E c \in Conns : \E i, j \in 1..Len(yws[c].out) : \E d \in Conns :
    /\ i < j /\ IsUpdate(yws[c].out[i]) /\ IsUpdate(yws[c].out[j])
    /\ {yws[c].out[i].u[1], yws[c].out[j].u[1]} \subseteq Applied(d)

\* this step handles an update frame
UpdateStep == lastFrame' # lastFrame /\ lastFrame'.sel = "update"

\* C7 - Broadcast scope: an accepted update of connection c for document D
\* is sent to every other open connection bound to D, and to no one else.
C7_BroadcastScope ==
  [][UpdateStep =>
       LET c == lastFrame'.c
           f == Frame("update", lastFrame'.u, c) IN
       \A k \in Conns :
         IF k # c /\ yws[k].state = "open" /\ yws[k].docName = yws[c].docName
         THEN yws'[k].out = Append(yws[k].out, f)
         ELSE yws'[k].out = yws[k].out]_vars

\* the update handled last went to another connection of the document
\* while its sender received nothing
C7_Witness ==
  /\ lastFrame.sel = "update"
  /\ \E k \in Conns \ {lastFrame.c} :
       /\ yws[k].out # << >>
       /\ yws[k].out[Len(yws[k].out)] = Frame("update", lastFrame.u, lastFrame.c)
  /\ \A i \in 1..Len(yws[lastFrame.c].out) : yws[lastFrame.c].out[i].from # lastFrame.c

\* C9 - Document lifecycle: closing connections neither removes nor resets
\* a cached document, a connection made after all others have closed gets
\* the same instance with its state, and the document and its awareness
\* leave the cache when deleteSession of the owning session completes.
C9_DocumentLifecycle ==
  [][/\ \A c \in Conns :
          (yws[c].state = "open" /\ yws'[c].state = "closed")
          => docs' = docs /\ docAwareness' = docAwareness /\ ydoc' = ydoc
     /\ \A c \in Conns :
          (yws[c].state = "none" /\ yws'[c].resumed)
          => LET d == docs[yws'[c].docName] IN
             /\ yws'[c].doc = d
             /\ docs' = docs
             /\ ydoc' = ydoc
             /\ yws'[c].out[1] = Frame("step1", ydoc[d], 0)
     /\ \A s \in SessionIds :
          (s \in sessions /\ s \notin sessions')
          => \A n \in DocNames :
               StartsWith(n, SessionPrefix(s)) => docs'[n] = NoDoc /\ docAwareness'[n] = NoDoc
     /\ \A n \in DocNames :
          (docs[n] # NoDoc /\ docs'[n] = NoDoc)
          => \E s \in SessionIds : /\ s \in sessions /\ s \notin sessions'
                                   /\ StartsWith(n, SessionPrefix(s))]_vars

\* a connection made after every connection of the document had closed
\* holds the instance with the updates applied before
C9_Witness ==
  \E c \in Conns :
    /\ yws[c].resumed
    /\ ydoc[yws[c].doc] # << >>
    /\ yws[c].out[1].u # << >>
    /\ \E k \in Conns \ {c} : yws[k].state = "closed" /\ yws[k].doc = yws[c].doc

\* this step handles an update frame of a connection whose sync step 2 the
\* server has not processed
UnsyncedUpdateStep == UpdateStep /\ ~ yws[lastFrame'.c].synced

\* C10 as claimed - an update received from a connection whose handshake
\* has not completed is neither applied nor broadcast.
C10_NoUpdateBeforeSync ==
  [][UnsyncedUpdateStep =>
       /\ ydoc' = ydoc
       /\ \A k \in Conns : yws'[k].out = yws[k].out]_vars

\* C10 as amended - the server keeps no handshake state: an update received
\* from an open connection whose handshake has not completed is applied to
\* the document and broadcast to the other connections of the document.
C10_UpdateAcceptedUnsynced ==
  [][UnsyncedUpdateStep =>
       LET c == lastFrame'.c
           d == yws[c].doc IN
       /\ ydoc'[d] = ydoc[d] \o lastFrame'.u
       /\ \A k \in Conns \ {c} :
            (yws[k].state = "open" /\ yws[k].docName = yws[c].docName)
            => /\ yws'[k].out # << >>
               /\ yws'[k].out[Len(yws'[k].out)].u = lastFrame'.u]_vars

\* an update of a connection that never sent sync step 2 is in the
\* document and was sent to another connection
C10_Witness ==
  /\ lastFrame.sel = "update"
  /\ ~ yws[lastFrame.c].synced
  /\ lastFrame.u[1] \in Applied(yws[lastFrame.c].doc)
  /\ \E k \in Conns \ {lastFrame.c} :
       \E i \in 1..Len(yws[k].out) : yws[k].out[i] = Frame("update", lastFrame.u, lastFrame.c)

TypeSanity ==
  \A c \in Clients : toClient[c] # << >> /\ Head(toClient[c]).t \in {"op", "create", "nop"}
                     /\ cl[c].v # NullVersion => Head(toClient[c]).v <= cl[c].v

\* ---------------------------------------------------------------------
\* Presence channel: messages and their effect

\* the step handles a message of this kind from connection c (no
\* connection is accepted in the step)
Handles(c, kind) ==
  /\ lastMsg' = Event(c, kind)
  /\ presVars' # presVars
  /\ \A k \in Conns : pws[k] = "none" <=> pws'[k] = "none"

\* C11 - a cursor-update received from a connection that has not sent
\* user-info creates no presence record, changes no record and triggers
\* no presence broadcast; a record exists only for a connection that sent
\* user-info.
C11_CursorUpdateNeedsRecord ==
  /\ [] (\A c \in Conns : connections[c] # NoRecord => registered[c] # "none")
  /\ [][\A c \in Conns :
          Handles(c, "cursor-update") /\ registered[c] = "none"
            => connections' = connections /\ lastPresence' = lastPresence]_vars

\* a connection that never sent user-info has sent a cursor-update while
\* another connection is registered
C11_Witness ==
  \E c, k \in Conns :
    /\ lastMsg = Event(c, "cursor-update")
    /\ pws[c] = "open" /\ registered[c] = "none"
    /\ k # c /\ pws[k] = "open" /\ connections[k] # NoRecord

\* the step closes connection c
Closes(c) == lastMsg' = Event(c, "close") /\ pws[c] = "open" /\ pws'[c] = "closed"

\* the step is a user-info, a cursor-update or a close of a registered
\* presence connection c
PresenceEvent(c) ==
  \/ Handles(c, "user-info")
  \/ Handles(c, "cursor-update") /\ connections[c] # NoRecord
  \/ Closes(c) /\ connections[c] # NoRecord

\* the document the event of connection c is on
EventFilename(c) ==
  IF pws'[c] = "closed" THEN connections[c].filename ELSE connections'[c].filename

\* the active records of a registry, each with its connection
Records(conn) == {[conn |-> k, rec |-> conn[k]] : k \in {j \in Conns : conn[j] # NoRecord}}

C20_OwnRecordOnly ==
  [][\A c \in Conns :
       Handles(c, "user-info") \/ Handles(c, "cursor-update")
         => \A k \in Conns \ {c} : connections'[k] = connections[k]]_vars

\* a connection has sent user-info with the userId of another registered
\* connection, whose record differs from its own
C20_Witness ==
  \E c, k \in Conns :
    /\ k # c
    /\ lastMsg = Event(c, "user-info")
    /\ connections[c] # NoRecord /\ connections[k] # NoRecord
    /\ connections[c].userId = connections[k].userId
    /\ connections[c] # connections[k]

\* ---------------------------------------------------------------------
\* Malformed frames and 'error' events

\* the step handles, on Yjs connection c, a frame that cannot be decoded
\* or an 'error' event (the first of a run of them)
YHandles(c, sel) ==
  /\ lastFrame' = [c |-> c, sel |-> sel, u |-> << >>]
  /\ lastFrame' # lastFrame

Errors(c) == lastMsg' = Event(c, "error") /\ lastMsg # lastMsg'

\* C14 - a malformed frame or an 'error' event on one connection affects
\* no other connection: every other connection stays open with its
\* presence record unchanged, every document keeps its content and the
\* server keeps running.
C14_ErrorIsolation ==
  [][/\ \A c \in Conns :
          Handles(c, "malformed") \/ Errors(c) =>
            /\ up' = up
            /\ \A k \in Conns \ {c} : pws'[k] = pws[k] /\ connections'[k] = connections[k]
            /\ UNCHANGED <<docs, ydoc, dbSnap>>
     /\ \A c \in Conns :
          YHandles(c, "undecodable") \/ YHandles(c, "error") =>
            /\ up' = up
            /\ \A k \in Conns \ {c} : yws'[k] = yws[k]
            /\ UNCHANGED <<docs, ydoc, dbSnap, pws, connections>>]_vars

\* ---------------------------------------------------------------------
\* Page store: failures, order of the writes

\* C15 - if reading or saving the page file fails while an operation is
\* being processed, the operation is still applied to the document
\* (content changed, version incremented) and published, and the
\* submitting client receives no error; this holds for every operation,
\* the ones that follow a failure included.
C15_PersistenceFailureHarmless ==
  done.io # "ok" => done.res = "ok" /\ done.applied /\ done.published

\* an operation during which the page file could not be read or saved has
\* been committed on a document on which an earlier write had failed and
\* later operations were committed
C15_Witness ==
  /\ done.io # "ok" /\ done.res = "ok"
  /\ \E f \in Fields : lastFailed[f] > 0 /\ dbSnap[f].v > lastFailed[f] + 1

\* C18 - the writes of one document to the page file are in version order:
\* the server never writes the content of version v after it has written
\* the content of a version greater than v.
C18_WritesInVersionOrder ==
  [][\A f \in Fields : lastWrite'[f] >= lastWrite[f]]_vars

\* the versions a field document can reach
Versions == 1..(MaxSubmits + 1)

\* C19 - a failed save is retried: when the write of a document's content
\* has failed, that content (or a newer one) is eventually written to the
\* page file, without a further edit of the document.
C19_FailedSaveRetried ==
  \A f \in Fields : \A v \in Versions :
    (lastFailed[f] = v /\ lastWrite[f] < v) ~> (lastWrite[f] >= v)

\* ---------------------------------------------------------------------
\* Sessions

\* C16 - a DELETE /delete request with the valid secret key of an existing
\* session, in memory or only in the database, succeeds, and afterwards
\* the session's directory, its database row, its in-memory entry and its
\* cached documents are gone.
C16_DeleteSessionSucceeds ==
  /\ [] (refused = {})
  /\ [][\A s \in SessionIds :
          s \in sessionRow /\ s \notin sessionRow'
            => /\ s \notin sessions' /\ s \notin sessionDir'
               /\ \A n \in DocNames : StartsWith(n, SessionPrefix(s)) => docs'[n] = NoDoc]_vars

\* ---------------------------------------------------------------------
\* Document ids

\* C17 - for every session id s and every filename f the server resolves
\* 's/' + f + '-definition' to (s, f, definition), 's/' + f + '-details'
\* to (s, f, details) and 's/' + f to (s, f, whole page), for the
\* filenames that contain or end with '-definition' or '-details' too.
C17_AddressRoundTrip ==
  addr.resolved # NoAddr =>
    addr.resolved = [sessionId |-> addr.s, filename |-> addr.f, fieldName |-> addr.kind]

\* ------------------------------------------------------------------------
\* Sessions and documents
\* ------------------------------------------------------------------------

\* the session a document name '<sessionId>/<page>' belongs to
SessionOf(name) == name[1]

\* the session is known in memory, in the database or by its directory
SessionExists(s) == s \in sessions \/ s \in sessionRow \/ s \in sessionDir

\* C22: the session directory gates document creation: a document
\* '<sessionId>/<name>' enters the server's document cache only in a step
\* that starts with the session <sessionId> existing; a connection that
\* names a session that does not exist or was deleted creates no document.
C22_SessionGatesCreation ==
  [][\A n \in DocNames :
       (docs[n] = NoDoc /\ docs'[n] # NoDoc) => SessionExists(SessionOf(n))]_vars

\* C23: handshake completion: every sync-step-1 frame the server receives
\* from an open connection is answered with exactly one sync-step-2 frame
\* sent to that same connection, and with nothing else.
C23_Step1Answered ==
  [][\A c \in Conns :
       YHandles(c, "step1") =>
         /\ Len(yws'[c].out) = Len(yws[c].out) + 1
         /\ yws'[c].out[Len(yws'[c].out)].t = "step2"
         /\ SubSeq(yws'[c].out, 1, Len(yws[c].out)) = yws[c].out]_vars

\* ------------------------------------------------------------------------
\* Cold load
\* ------------------------------------------------------------------------

\* the server answers a subscribe or fetch of client c for a document that
\* has no snapshot in the database
ServesCold(c) ==
  /\ toServer[c] # << >>
  /\ Head(toServer[c]).t \in {"sub", "fetch"}
  /\ toServer'[c] = Tail(toServer[c])
  /\ Len(toClient'[c]) = Len(toClient[c]) + 1
  /\ dbSnap[DocOf(c)].type = "null"

\* the snapshot returned for a document without stored snapshot: the
\* stored value of the addressed field when the page exists, and the
\* non-existent document at version 0 when it does not
ColdSnapshotFromPage ==
  \A c \in Clients :
    ServesCold(c) =>
      LET m == toClient'[c][Len(toClient'[c])] IN
      IF PageExists(page)
      THEN m.t = "snap" /\ m.oi = page[DocOf(c)]
      ELSE m.t = "snapnull" /\ m.v = 0 /\ m.oi = << >>

Submits(c) ==
  /\ Len(toServer'[c]) = Len(toServer[c]) + 1
  /\ toServer'[c][Len(toServer'[c])].t = "op"

\* C25: every operation a client submits, from handleChange or from the
\* initialValue effect, carries as its deleted value the content of the
\* client's local document at the moment of submission and is based on the
\* version of that local document.
C25_OdIsLocalContent ==
  [][\A c \in Clients :
       Submits(c) =>
         LET op == toServer'[c][Len(toServer'[c])] IN
         /\ cl[c].type = "json0"
         /\ op.od = cl[c].data
         /\ op.v = cl[c].v]_vars

\* an operation that deletes a content which is neither empty nor the
\* content the editor started with is in flight
C25_Witness ==
  \E c \in Clients :
    /\ cl[c].inflight.t = "op"
    /\ Len(cl[c].inflight.od) >= 2
    /\ cl[c].inflight.v >= 1

\* ------------------------------------------------------------------------
\* Concurrent persistence of the fields of one page
\* ------------------------------------------------------------------------

\* the request of client c runs saveWikiPage
Saves(c) == rq[c].st = "read" /\ rq'[c].st = "saved"

\* C26: concurrent field persistence loses no update: the read-modify-write
\* of the page file done for an operation on one field never overwrites
\* what the processing of an operation on the other field has written:
\* a save for one field leaves the other field of the page file as it is.
C26_NoLostUpdate ==
  [][\A c \in Clients :
       Saves(c) => \A g \in Fields \ {rq[c].f} : page'[g] = page[g]]_vars

\* ------------------------------------------------------------------------
\* One document instance per name
\* ------------------------------------------------------------------------

\* the connection is open
Open(c) == yws[c].state = "open"

\* the updates carried by the state offered to a connection when it joins
Offered(ws) == {ws.out[1].u[i] : i \in 1..Len(ws.out[1].u)}

\* C27: all connections of one document name share one document instance
\* at all times: every open connection holds the document that the cache
\* has under its name, also after deleteSession has run, so every update
\* accepted from an open connection of a name is contained in the state
\* offered to a connection that joins that name later.
C27_SharedInstance ==
  /\ [](\A c \in Conns : Open(c) => yws[c].doc = docs[yws[c].docName])
  /\ [][\A c \in Conns : \A n \in DocNames :
          Accepted(c, n) =>
            \A k \in Conns :
              (Open(k) /\ yws[k].docName = n) => Applied(yws[k].doc) \subseteq Offered(yws'[c])]_vars

\* ------------------------------------------------------------------------
\* Deleted sessions
\* ------------------------------------------------------------------------

\* deleteSession(s) has completed and the session has left the database
Deleted(s) == s \notin sessionRow /\ s \notin deleting

\* C28: a deleted session stays deleted: once deleteSession(S) has
\* completed, no later step (an operation arriving on a connection that is
\* still open, a persistence write that was in flight) makes the directory
\* of S or a page file in it again.
C28_StaysDeleted ==
  [][Deleted(StoreSession) =>
       /\ (StoreSession \notin sessionDir => StoreSession \notin sessionDir')
       /\ (~ PageExists(page) => ~ PageExists(page'))]_vars

\* ------------------------------------------------------------------------
\* Joining a session
\* ------------------------------------------------------------------------

\* C29: concurrent getSession calls for a session that is not yet in memory
\* yield a single in-memory session object: once every join request has
\* finished, every user that was added with addUserToSession is in the
\* users map of the session in the sessions map.
C29_SingleSessionObject ==
  Joining = {} => \A s \in SessionIds : joins.added \subseteq joins.users[s]

\* ------------------------------------------------------------------------
\* Creating a session
\* ------------------------------------------------------------------------

\* C30: createSession leaves memory unchanged on error: when making the
\* session directory or saving the session row fails, createSession throws
\* and no session with that id is registered in the sessions map.
C30_CreateErrorLeavesMemory ==
  [][\A s \in SessionIds :
       (s \notin createFailed /\ s \in createFailed') => s \notin sessions']_vars

====
